---- MODULE Spec2Model ----
(***************************************************************************)
(* A model of render_sbgn_rs (src/src/main.rs): draw_sbgnml reads an SBGN  *)
(* document, parses it into glyphs and arcs, fits a transform, and replays *)
(* render_sbgnml on a raster and on a vector Cairo surface.                *)
(*                                                                         *)
(* Numbers: every f64 is an exact rational <<numerator, denominator>>.     *)
(* Text: a label is a sequence of one-character strings; a class name is   *)
(* the sequence of its words (the words of "simple chemical multimer" are  *)
(* <<"simple", "chemical", "multimer">>), so that trimming and suffix      *)
(* stripping are computed and not assumed.                                 *)
(***************************************************************************)
EXTENDS Integers, Sequences, FiniteSets, TLC

VARIABLES
    doc,                \* the input document (the XML tree roxmltree hands over)
    padding,            \* --padding
    show_clone_markers, \* --clone-markers
    font,               \* the text collaborator's metrics: [advance, line_height] per font pixel
    pc,                 \* position in draw_sbgnml
    result,             \* what draw_sbgnml returned: None while it runs
    glyphs, arcs,       \* parse_sbgn's vectors
    transform, canvas,  \* transform_with_padding's results
    surfaces,           \* the surfaces created so far, in order
    files,              \* the output files created so far, in order
    ctx,                \* the Cairo context of the surface being drawn on
    stack,              \* the call stack of render_glyph_tree: one loop frame per call
    aux_i, arc_i,       \* positions of the two later loops of render_sbgnml
    trace               \* one entry per glyph, auxiliary glyph or arc drawn in this pass

vars == <<doc, padding, show_clone_markers, font, pc, result, glyphs, arcs,
          transform, canvas, surfaces, files, ctx, stack, aux_i, arc_i, trace>>

----------------------------------------------------------------------------
(* Option<T>: None is the empty sequence, Some(v) the sequence <<v>>.      *)
None == <<>>
Some(v) == <<v>>
IsSome(o) == o # <<>>
UnwrapOr(o, d) == IF o = <<>> THEN d ELSE o[1]
\* A let statement: With([x \in {e} |-> body]) is body with x bound to the
\* value of e, computed once before body is.
With(f) == f[CHOOSE x \in DOMAIN f : TRUE]

----------------------------------------------------------------------------
(* f64 arithmetic, exact.                                                  *)
Abs(n) == IF n < 0 THEN -n ELSE n

RECURSIVE GCD(_, _)
GCD(a, b) == IF b = 0 THEN a ELSE GCD(b, a % b)

\* n/d over their common factor g, with a positive denominator.
Reduce(n, d, g) == IF d < 0 THEN <<(-n) \div g, (-d) \div g>> ELSE <<n \div g, d \div g>>

Rat(n, d) == Reduce(n, d, GCD(Abs(n), Abs(d)))

R(n) == <<n, 1>>
\* Sums and products are formed over the least common denominator and with
\* common factors cancelled first, so that the terms stay small: g is the
\* common factor of the denominators, g1 and g2 those across the fractions.
AddOver(a, b, g) == Rat(a[1] * (b[2] \div g) + b[1] * (a[2] \div g), (a[2] \div g) * b[2])
RAdd(a, b) == AddOver(a, b, GCD(a[2], b[2]))

RNeg(a) == <<-a[1], a[2]>>
RSub(a, b) == RAdd(a, RNeg(b))

MulOver(a, b, g1, g2) == Rat((a[1] \div g1) * (b[1] \div g2), (a[2] \div g2) * (b[2] \div g1))
RMul(a, b) == MulOver(a, b, GCD(Abs(a[1]), b[2]), GCD(Abs(b[1]), a[2]))

RInv(a) == IF a[1] < 0 THEN <<-a[2], -a[1]>> ELSE <<a[2], a[1]>>
RDiv(a, b) == RMul(a, RInv(b))
RAbs(a) == <<Abs(a[1]), a[2]>>
LtOver(a, b, g) == a[1] * (b[2] \div g) < b[1] * (a[2] \div g)
RLt(a, b) == LtOver(a, b, GCD(a[2], b[2]))

RLe(a, b) == ~RLt(b, a)
RMin(a, b) == IF RLt(b, a) THEN b ELSE a
RMax(a, b) == IF RLt(a, b) THEN b ELSE a
RCeil(a) == -((-a[1]) \div a[2])

RECURSIVE ISqrtFrom(_, _)
ISqrtFrom(n, k) == IF k * k >= n THEN k ELSE ISqrtFrom(n, k + 1)

\* f64::sqrt on the squares the model's points produce (integer lengths).
RSqrt(a) == <<ISqrtFrom(a[1], 0), ISqrtFrom(a[2], 0)>>

\* Whether RSqrt is exact for a (both terms perfect squares).
SqrtExact(a) == RMul(RSqrt(a), RSqrt(a)) = a

----------------------------------------------------------------------------
(* Constants of main.rs. Widths and sizes are rationals; a colour is the   *)
(* triple of its components in units of 1/2550.                            *)
DEFAULT_PADDING_PX == R(10)
DEFAULT_LINE_WIDTH == Rat(3, 2)
FONT_MAIN_PX == R(20)
FONT_SMALL_PX == R(12)
TEXT_OUTLINE_WIDTH == Rat(3, 4)
ARROW_SIZE == R(8)
ARROW_SCALE == Rat(7, 4)
BAR_LENGTH == R(12)
BAR_OFFSET == R(14)
CATALYSIS_OVERLAP_RATIO == Rat(1, 2)
PORT_CONNECTOR_LEN_PX == R(11)
LOGICAL_PORT_CONNECTOR_LEN_PX == R(20)
SHOW_PROCESS_DEBUG == FALSE
SHOW_LOGICAL_DEBUG_BBOX == FALSE
BORDER_COLOR == <<850, 850, 850>>
DEFAULT_FILL_COLOR == <<2460, 2460, 2460>>
AUX_LINE_COLOR == <<1060, 1060, 1060>>
ASSOCIATION_FILL_COLOR == <<1070, 1070, 1070>>
CLONE_MARKER_HEIGHT_RATIO == Rat(30, 100)
CLONE_MARKER_FILL_COLOR == <<2091, 2091, 2091>>
CLONE_MARKER_STROKE_WIDTH == Rat(3, 2)
WHITE == <<2550, 2550, 2550>>
MAGENTA == <<2550, 0, 2550>>

----------------------------------------------------------------------------
(* Text.                                                                   *)
Whitespace == {" ", "\t", "\n", "\r"}

\* text.trim().is_empty()
IsBlank(text) == \A i \in 1..Len(text) : text[i] \in Whitespace

\* label.replace('\r', "")
RemoveCR(text) == SelectSeq(text, LAMBDA c : c # "\r")

\* class_name.ends_with(" multimer"): a further word precedes the last one.
ends_with_multimer(class_name) ==
    Len(class_name) >= 2 /\ class_name[Len(class_name)] = "multimer"

\* class_name.strip_suffix(" multimer").unwrap_or(class_name)
strip_suffix_multimer(class_name) ==
    IF ends_with_multimer(class_name)
    THEN SubSeq(class_name, 1, Len(class_name) - 1)
    ELSE class_name

----------------------------------------------------------------------------
(* The input document. An attribute is an Option of its text; the text of  *)
(* a numeric attribute is [ok, val]: ok says whether str::parse::<f64>     *)
(* accepts it, val is the number it then denotes.                          *)
(*   glyph element: [id, class, orientation, label, bbox, ports, clone,    *)
(*                   state, glyphs], glyphs its child glyph elements       *)
(*   arc element:   [class, start, end, nexts]                             *)
(*   document:      [well_formed, has_map, glyphs, arcs], glyphs the glyph *)
(*                   children of the map element, arcs every arc element   *)

\* value.and_then(|v| v.parse::<f64>().ok())
parse_f64(value) ==
    IF value = None THEN None
    ELSE IF value[1].ok THEN Some(value[1].val) ELSE None

parse_bbox(node) ==
    LET x == parse_f64(node.x)
        y == parse_f64(node.y)
        w == parse_f64(node.w)
        h == parse_f64(node.h)
    IN  IF x = None \/ y = None \/ w = None \/ h = None
        THEN None
        ELSE Some([x |-> x[1], y |-> y[1], w |-> w[1], h |-> h[1]])

\* The filter_map over the port elements of a glyph.
RECURSIVE parse_ports(_)
parse_ports(nodes) ==
    IF nodes = <<>> THEN <<>>
    ELSE LET x == parse_f64(Head(nodes).x)
             y == parse_f64(Head(nodes).y)
         IN  (IF x = None \/ y = None THEN <<>> ELSE <<[x |-> x[1], y |-> y[1]]>>)
             \o parse_ports(Tail(nodes))

\* The Glyph that parse_glyph_node pushes for one glyph element.
glyph_of_node(glyph, parent_id) ==
    [ id             |-> UnwrapOr(glyph.id, ""),
      parent_id      |-> parent_id,
      class_name     |-> UnwrapOr(glyph.class, <<"">>),
      bbox           |-> IF glyph.bbox = None THEN None ELSE parse_bbox(glyph.bbox[1]),
      label          |-> RemoveCR(UnwrapOr(glyph.label, <<>>)),
      ports          |-> parse_ports(glyph.ports),
      has_clone      |-> glyph.clone,
      state_value    |-> IF glyph.state = None THEN None ELSE glyph.state[1].value,
      state_variable |-> IF glyph.state = None THEN None ELSE glyph.state[1].variable,
      orientation    |-> glyph.orientation ]

RECURSIVE parse_glyph_node(_, _, _)
RECURSIVE parse_glyph_nodes(_, _, _)
\* Pushes the glyph, then walks its child glyph elements with its id as parent.
parse_glyph_node(glyph, parent_id, acc) ==
    parse_glyph_nodes(glyph.glyphs, Some(UnwrapOr(glyph.id, "")),
                      Append(acc, glyph_of_node(glyph, parent_id)))

\* The for loop over sibling glyph elements.
parse_glyph_nodes(nodes, parent_id, acc) ==
    IF nodes = <<>> THEN acc
    ELSE parse_glyph_nodes(Tail(nodes), parent_id,
                           parse_glyph_node(Head(nodes), parent_id, acc))

\* parse_nexts keeping a waypoint at (0, 0) for one that does not parse.
RECURSIVE parse_nexts_keeping(_)
parse_nexts_keeping(nodes) ==
    IF nodes = <<>> THEN <<>>
    ELSE LET x == parse_f64(Head(nodes).x)
             y == parse_f64(Head(nodes).y)
         IN  (IF x # None /\ y # None THEN <<[x |-> x[1], y |-> y[1]]>>
              ELSE <<[x |-> R(0), y |-> R(0)]>>)
             \o parse_nexts_keeping(Tail(nodes))

\* The waypoints kept by the loop over the next elements of an arc.
RECURSIVE parse_nexts(_)
parse_nexts(nodes) ==
    IF nodes = <<>> THEN <<>>
    ELSE LET x == parse_f64(Head(nodes).x)
             y == parse_f64(Head(nodes).y)
         IN  (IF x # None /\ y # None THEN <<[x |-> x[1], y |-> y[1]]>> ELSE <<>>)
             \o parse_nexts(Tail(nodes))

Err(msg) == [ok |-> FALSE, err |-> msg]
Ok(v) == [ok |-> TRUE, val |-> v]

\* parse_arc with a default point (0, 0) for a missing start or end element.
parse_arc_lenient(arc) ==
    LET origin == [x |-> R(0), y |-> R(0)]
        point(el) == IF el = None \/ parse_f64(el[1].x) = None \/ parse_f64(el[1].y) = None
                     THEN origin
                     ELSE [x |-> parse_f64(el[1].x)[1], y |-> parse_f64(el[1].y)[1]]
    IN  Ok([ class_name |-> UnwrapOr(arc.class, <<"">>),
             points |-> <<point(arc.start)>> \o parse_nexts(arc.nexts) \o <<point(arc.end)>> ])

\* One iteration of the loop over arc elements: the Arc, or the error.
parse_arc(arc) ==
    IF arc.start = None THEN Err("Arc missing start")
    ELSE IF arc.end = None THEN Err("Arc missing end")
    ELSE LET sx == parse_f64(arc.start[1].x)
             sy == parse_f64(arc.start[1].y)
             ex == parse_f64(arc.end[1].x)
             ey == parse_f64(arc.end[1].y)
         IN  IF sx = None THEN Err("Bad arc start x")
             ELSE IF sy = None THEN Err("Bad arc start y")
             ELSE IF ex = None THEN Err("Bad arc end x")
             ELSE IF ey = None THEN Err("Bad arc end y")
             ELSE Ok([ class_name |-> UnwrapOr(arc.class, <<"">>),
                       points |-> <<[x |-> sx[1], y |-> sy[1]]>>
                                  \o parse_nexts(arc.nexts)
                                  \o <<[x |-> ex[1], y |-> ey[1]]>> ])

RECURSIVE parse_arcs(_, _)
parse_arcs(nodes, acc) ==
    IF nodes = <<>> THEN Ok(acc)
    ELSE LET a == parse_arc(Head(nodes))
         IN  IF a.ok THEN parse_arcs(Tail(nodes), Append(acc, a.val)) ELSE a

\* bounds_x_values that takes the ports of glyphs with a bounding box only.
RECURSIVE bounds_x_values_boxed(_)
bounds_x_values_boxed(gs) ==
    IF gs = <<>> THEN <<>>
    ELSE LET g == Head(gs)
         IN  (IF g.bbox = None THEN <<>>
              ELSE <<g.bbox[1].x, RAdd(g.bbox[1].x, g.bbox[1].w)>>
                   \o [i \in 1..Len(g.ports) |-> g.ports[i].x])
             \o bounds_x_values_boxed(Tail(gs))

RECURSIVE bounds_x_values(_)
bounds_x_values(gs) ==
    IF gs = <<>> THEN <<>>
    ELSE LET g == Head(gs)
         IN  (IF g.bbox = None THEN <<>>
              ELSE <<g.bbox[1].x, RAdd(g.bbox[1].x, g.bbox[1].w)>>)
             \o [i \in 1..Len(g.ports) |-> g.ports[i].x]
             \o bounds_x_values(Tail(gs))

RECURSIVE bounds_y_values(_)
bounds_y_values(gs) ==
    IF gs = <<>> THEN <<>>
    ELSE LET g == Head(gs)
         IN  (IF g.bbox = None THEN <<>>
              ELSE <<g.bbox[1].y, RAdd(g.bbox[1].y, g.bbox[1].h)>>)
             \o [i \in 1..Len(g.ports) |-> g.ports[i].y]
             \o bounds_y_values(Tail(gs))

RECURSIVE fold_min(_)
fold_min(values) ==
    IF Len(values) = 1 THEN values[1] ELSE RMin(values[1], fold_min(Tail(values)))

RECURSIVE fold_max(_)
fold_max(values) ==
    IF Len(values) = 1 THEN values[1] ELSE RMax(values[1], fold_max(Tail(values)))

\* compute_bounds that also rejects a glyph without bounding box and ports.
compute_bounds_strict(gs, as) ==
    LET x_values == bounds_x_values(gs)
        y_values == bounds_y_values(gs)
    IN  IF x_values = <<>> \/ y_values = <<>>
           \/ \E n \in 1..Len(gs) : gs[n].bbox = None /\ gs[n].ports = <<>>
        THEN Err("No coordinates found in SBGN file")
        ELSE Ok([ min_x |-> fold_min(x_values), max_x |-> fold_max(x_values),
                  min_y |-> fold_min(y_values), max_y |-> fold_max(y_values) ])

compute_bounds(gs, as) ==
    LET x_values == bounds_x_values(gs)
        y_values == bounds_y_values(gs)
    IN  IF x_values = <<>> \/ y_values = <<>>
        THEN Err("No coordinates found in SBGN file")
        ELSE Ok([ min_x |-> fold_min(x_values), max_x |-> fold_max(x_values),
                  min_y |-> fold_min(y_values), max_y |-> fold_max(y_values) ])

\* parse_sbgn that collects the points of each arc from its end to its start.
parse_sbgn_backwards(d) ==
    IF ~d.has_map THEN Err("SBGN file missing map element")
    ELSE LET gs == parse_glyph_nodes(d.glyphs, None, <<>>)
             as == parse_arcs(d.arcs, <<>>)
             turned(a) == [a EXCEPT !.points = [k \in 1..Len(@) |-> @[Len(@) + 1 - k]]]
         IN  IF ~as.ok THEN as
             ELSE LET bounds == compute_bounds(gs, as.val)
                  IN  IF ~bounds.ok THEN bounds
                      ELSE Ok([ glyphs |-> gs,
                                arcs |-> [n \in 1..Len(as.val) |-> turned(as.val[n])],
                                bounds |-> bounds.val ])

parse_sbgn(d) ==
    IF ~d.has_map THEN Err("SBGN file missing map element")
    ELSE LET gs == parse_glyph_nodes(d.glyphs, None, <<>>)
             as == parse_arcs(d.arcs, <<>>)
         IN  IF ~as.ok THEN as
             ELSE LET bounds == compute_bounds(gs, as.val)
                  IN  IF ~bounds.ok THEN bounds
                      ELSE Ok([glyphs |-> gs, arcs |-> as.val, bounds |-> bounds.val])

----------------------------------------------------------------------------
(* Transform.                                                              *)
\* Transform::new without the clamp of the spans.
Transform_new_unclamped(min_x, min_y, max_x, max_y, width, height) ==
    With([span_x \in {RAbs(RSub(max_x, min_x))},
          span_y \in {RAbs(RSub(max_y, min_y))} |->
        [ min_x |-> min_x, min_y |-> min_y,
          scale_x |-> RDiv(width, span_x), scale_y |-> RDiv(height, span_y) ] ])

Transform_new(min_x, min_y, max_x, max_y, width, height) ==
    With([span_x \in {RMax(RAbs(RSub(max_x, min_x)), R(1))},
          span_y \in {RMax(RAbs(RSub(max_y, min_y)), R(1))} |->
        [ min_x |-> min_x, min_y |-> min_y,
          scale_x |-> RDiv(width, span_x), scale_y |-> RDiv(height, span_y) ] ])

\* map_point that scales the point without moving it to the origin first.
map_point_unmoved(t, x, y) ==
    [x |-> RMul(x, t.scale_x), y |-> RMul(y, t.scale_y)]

map_point(t, x, y) ==
    [x |-> RMul(RSub(x, t.min_x), t.scale_x), y |-> RMul(RSub(y, t.min_y), t.scale_y)]

map_size(t, w, h) == <<RMul(w, t.scale_x), RMul(h, t.scale_y)>>

scale_scalar(t, value) == RMul(value, RMin(t.scale_x, t.scale_y))

\* transform_with_padding that fits the padded content into a canvas of the
\* size of the content.
transform_with_padding_fitted(bounds, pad) ==
    With([min_x \in {RSub(bounds.min_x, pad)}, max_x \in {RAdd(bounds.max_x, pad)},
          min_y \in {RSub(bounds.min_y, pad)}, max_y \in {RAdd(bounds.max_y, pad)} |->
    With([width \in {RMax(RAbs(RSub(bounds.max_x, bounds.min_x)), R(1))},
          height \in {RMax(RAbs(RSub(bounds.max_y, bounds.min_y)), R(1))} |->
        [ transform |-> Transform_new(min_x, min_y, max_x, max_y, width, height),
          width |-> width, height |-> height ] ]) ])

\* transform_with_padding that pads the low side of each axis only.
transform_with_padding_low(bounds, pad) ==
    With([min_x \in {RSub(bounds.min_x, pad)}, max_x \in {bounds.max_x},
          min_y \in {RSub(bounds.min_y, pad)}, max_y \in {bounds.max_y} |->
    With([width \in {RMax(RAbs(RSub(max_x, min_x)), R(1))},
          height \in {RMax(RAbs(RSub(max_y, min_y)), R(1))} |->
        [ transform |-> Transform_new(min_x, min_y, max_x, max_y, width, height),
          width |-> width, height |-> height ] ]) ])

transform_with_padding(bounds, pad) ==
    With([min_x \in {RSub(bounds.min_x, pad)}, max_x \in {RAdd(bounds.max_x, pad)},
          min_y \in {RSub(bounds.min_y, pad)}, max_y \in {RAdd(bounds.max_y, pad)} |->
    With([width \in {RMax(RAbs(RSub(max_x, min_x)), R(1))},
          height \in {RMax(RAbs(RSub(max_y, min_y)), R(1))} |->
        [ transform |-> Transform_new(min_x, min_y, max_x, max_y, width, height),
          width |-> width, height |-> height ] ]) ])

bbox_pixel_rect(t, bbox) ==
    With([x0 \in {RMul(RSub(bbox.x, t.min_x), t.scale_x)},
          x1 \in {RMul(RSub(RAdd(bbox.x, bbox.w), t.min_x), t.scale_x)},
          y0 \in {RMul(RSub(bbox.y, t.min_y), t.scale_y)},
          y1 \in {RMul(RSub(RAdd(bbox.y, bbox.h), t.min_y), t.scale_y)} |->
    With([left \in {RMin(x0, x1)}, right \in {RMax(x0, x1)},
          top \in {RMin(y0, y1)}, bottom \in {RMax(y0, y1)} |->
        [ x0 |-> left, y0 |-> top,
          width |-> RSub(right, left), height |-> RSub(bottom, top),
          center |-> [ x |-> RDiv(RAdd(left, right), R(2)),
                       y |-> RDiv(RAdd(top, bottom), R(2)) ] ] ]) ])

----------------------------------------------------------------------------
(* The Cairo context, as far as main.rs uses it. A path is the sequence of *)
(* its elements in device space:                                           *)
(*   <<"M", x, y>>  <<"L", x, y>>  <<"C", x1, y1, x2, y2, x3, y3>>  <<"Z">>  *)
(*   <<"R", x, y, w, h>>   <<"A", xc, yc, rx, ry, a1, a2>>, angles counted  *)
(*   in quarter turns (FRAC_PI_2 = 1, PI = 2, TAU = 4)                     *)
(*   <<"T", x, y, text, font_px>>, the outline of a laid out text          *)
(* ops is what reached the surface: [op, path, src, lw, clip] per paint,   *)
(* fill or stroke. rets records the paint state <<function, src, lw>> at   *)
(* the return of every drawing function.                                   *)
\* CairoContext::new that hands out the context of the pass before, if any.
CairoContext_kept ==
    IF ctx # None THEN ctx[1]
    ELSE [ src |-> <<0, 0, 0>>, lw |-> R(2), cap |-> "Butt",
           path |-> <<>>, cp |-> None, sp |-> None,
           ctm |-> [sx |-> R(1), sy |-> R(1), tx |-> R(0), ty |-> R(0)],
           clip |-> <<>>, saved |-> <<>>, ops |-> <<>>, rets |-> {} ]

CairoContext_new ==
    [ src |-> <<0, 0, 0>>, lw |-> R(2), cap |-> "Butt",
      path |-> <<>>, cp |-> None, sp |-> None,
      ctm |-> [sx |-> R(1), sy |-> R(1), tx |-> R(0), ty |-> R(0)],
      clip |-> <<>>, saved |-> <<>>, ops |-> <<>>, rets |-> {} ]

set_source_rgb(c, rgb) == [c EXCEPT !.src = rgb]
set_line_width(c, w) == [c EXCEPT !.lw = w]
set_line_cap(c, cap) == [c EXCEPT !.cap = cap]

PaintOp(c, name, path) ==
    [op |-> name, path |-> path, src |-> c.src, lw |-> c.lw, clip |-> c.clip]

paint(c) == [c EXCEPT !.ops = Append(@, PaintOp(c, "paint", <<>>))]

new_path(c) == [c EXCEPT !.path = <<>>, !.cp = None, !.sp = None]

\* User space to device space under the current matrix.
Dev(c, x, y) ==
    [x |-> RAdd(RMul(x, c.ctm.sx), c.ctm.tx), y |-> RAdd(RMul(y, c.ctm.sy), c.ctm.ty)]

move_to(c, x, y) ==
    LET To(p) == [c EXCEPT !.path = Append(@, <<"M", p.x, p.y>>),
                           !.cp = Some(p), !.sp = Some(p)]
    IN  To(Dev(c, x, y))

\* Without a current point, line_to is move_to.
line_to(c, x, y) ==
    LET To(p) == [c EXCEPT !.path = Append(@, <<IF c.cp = None THEN "M" ELSE "L", p.x, p.y>>),
                           !.cp = Some(p),
                           !.sp = IF c.cp = None THEN Some(p) ELSE c.sp]
    IN  To(Dev(c, x, y))

curve_to(c, x1, y1, x2, y2, x3, y3) ==
    LET To(p1, p2, p3) ==
          [c EXCEPT !.path = Append(@, <<"C", p1.x, p1.y, p2.x, p2.y, p3.x, p3.y>>),
                    !.cp = Some(p3),
                    !.sp = IF c.sp = None THEN Some(p1) ELSE c.sp]
    IN  To(Dev(c, x1, y1), Dev(c, x2, y2), Dev(c, x3, y3))

close_path(c) == [c EXCEPT !.path = Append(@, <<"Z">>), !.cp = c.sp]

rectangle(c, x, y, w, h) ==
    LET To(p) == [c EXCEPT !.path = Append(@, <<"R", p.x, p.y, RMul(w, c.ctm.sx),
                                                 RMul(h, c.ctm.sy)>>),
                           !.cp = Some(p), !.sp = Some(p)]
    IN  To(Dev(c, x, y))

\* cos and sin of a whole number of quarter turns.
CosQ(a) == CASE a % 4 = 0 -> R(1) [] a % 4 = 2 -> R(-1) [] OTHER -> R(0)
SinQ(a) == CASE a % 4 = 1 -> R(1) [] a % 4 = 3 -> R(-1) [] OTHER -> R(0)

\* The point of the ellipse around ctr with radii rx, ry at angle a.
ArcPoint(ctr, rx, ry, a) ==
    [x |-> RAdd(ctr.x, RMul(rx, CosQ(a))), y |-> RAdd(ctr.y, RMul(ry, SinQ(a)))]

arc(c, xc, yc, radius, a1, a2) ==
    LET To(ctr, rx, ry) ==
          [c EXCEPT !.path = Append(@, <<"A", ctr.x, ctr.y, rx, ry, a1, a2>>),
                    !.cp = Some(ArcPoint(ctr, rx, ry, a2)),
                    !.sp = IF c.cp = None THEN Some(ArcPoint(ctr, rx, ry, a1)) ELSE c.sp]
    IN  To(Dev(c, xc, yc), RMul(radius, c.ctm.sx), RMul(radius, c.ctm.sy))

\* ctx.current_point(), in user space.
current_point(c) ==
    IF c.cp = None THEN None
    ELSE Some([ x |-> RDiv(RSub(c.cp[1].x, c.ctm.tx), c.ctm.sx),
                y |-> RDiv(RSub(c.cp[1].y, c.ctm.ty), c.ctm.sy) ])

ClearPath(c) == [c EXCEPT !.path = <<>>, !.cp = None, !.sp = None]

fill_preserve(c) == [c EXCEPT !.ops = Append(@, PaintOp(c, "fill", c.path))]
fill(c) == ClearPath(fill_preserve(c))
stroke_preserve(c) == [c EXCEPT !.ops = Append(@, PaintOp(c, "stroke", c.path))]
stroke(c) == ClearPath(stroke_preserve(c))
clip(c) == ClearPath([c EXCEPT !.clip = Append(@, c.path)])

save(c) ==
    [c EXCEPT !.saved = Append(@, [ src |-> c.src, lw |-> c.lw, cap |-> c.cap,
                                    ctm |-> c.ctm, clip |-> c.clip ])]

\* restore that drops the saved state without reinstating it.
restore_dropped(c) == [c EXCEPT !.saved = SubSeq(@, 1, Len(@) - 1)]

\* The path is not part of the saved state. A restore without a save is
\* an error Cairo keeps in the context; main.rs discards that Result.
restore(c) ==
    IF c.saved = <<>> THEN c
    ELSE LET s == c.saved[Len(c.saved)]
         IN  [c EXCEPT !.src = s.src, !.lw = s.lw, !.cap = s.cap, !.ctm = s.ctm,
                       !.clip = s.clip, !.saved = SubSeq(@, 1, Len(@) - 1)]

cairo_translate(c, tx, ty) ==
    [c EXCEPT !.ctm.tx = RAdd(@, RMul(c.ctm.sx, tx)), !.ctm.ty = RAdd(@, RMul(c.ctm.sy, ty))]

cairo_scale(c, sx, sy) == [c EXCEPT !.ctm.sx = RMul(@, sx), !.ctm.sy = RMul(@, sy)]

\* pangocairo::layout_path at the current point.
layout_path(c, layout) ==
    [c EXCEPT !.path = Append(@, <<"T", c.cp[1].x, c.cp[1].y, layout.text, layout.font_px>>)]

\* layout.pixel_size(): whole pixels, from the font's metrics.
pixel_size(layout) ==
    [ width |-> RCeil(RMul(RMul(R(Len(layout.text)), font.advance), layout.font_px)),
      height |-> RCeil(RMul(font.line_height, layout.font_px)) ]

\* The paint state a drawing function leaves behind when it returns from
\* drawing.
Ret(c, fn) == [c EXCEPT !.rets = @ \cup {<<fn, c.src, c.lw>>}]

----------------------------------------------------------------------------
(* Shape paths.                                                            *)
path_rect(c, rect) == rectangle(new_path(c), rect.x0, rect.y0, rect.width, rect.height)

path_ellipse(c, rect) ==
    With([radius_x \in {RMax(RDiv(rect.width, R(2)), R(1))},
          radius_y \in {RMax(RDiv(rect.height, R(2)), R(1))} |->
    With([c1 \in {new_path(save(c))} |->
    With([c2 \in {cairo_translate(c1, rect.center.x, rect.center.y)} |->
    With([c3 \in {cairo_scale(c2, radius_x, radius_y)} |->
    With([c4 \in {arc(c3, R(0), R(0), R(1), 0, 4)} |->
        restore(c4) ]) ]) ]) ]) ])

path_round_rect_impl(c, x, y, width, height, radius0) ==
    With([radius \in {RMin(RMin(radius0, RDiv(width, R(2))), RDiv(height, R(2)))},
          right \in {RAdd(x, width)},
          bottom \in {RAdd(y, height)} |->
    With([c1 \in {move_to(new_path(c), RAdd(x, radius), y)} |->
    With([c2 \in {line_to(c1, RSub(right, radius), y)} |->
    With([c3 \in {arc(c2, RSub(right, radius), RAdd(y, radius), radius, -1, 0)} |->
    With([c4 \in {line_to(c3, right, RSub(bottom, radius))} |->
    With([c5 \in {arc(c4, RSub(right, radius), RSub(bottom, radius), radius, 0, 1)} |->
    With([c6 \in {line_to(c5, RAdd(x, radius), bottom)} |->
    With([c7 \in {arc(c6, RAdd(x, radius), RSub(bottom, radius), radius, 1, 2)} |->
    With([c8 \in {line_to(c7, x, RAdd(y, radius))} |->
    With([c9 \in {arc(c8, RAdd(x, radius), RAdd(y, radius), radius, 2, 3)} |->
        close_path(c9) ]) ]) ]) ]) ]) ]) ]) ]) ]) ])

path_round_rect(c, rect, radius) ==
    path_round_rect_impl(c, rect.x0, rect.y0, rect.width, rect.height, radius)

path_round_bottom_rect_impl(c, x, y, width, height, radius0) ==
    With([radius \in {RMin(RMin(radius0, RDiv(width, R(2))), RDiv(height, R(2)))},
          right \in {RAdd(x, width)},
          bottom \in {RAdd(y, height)} |->
    With([c1 \in {move_to(new_path(c), x, y)} |->
    With([c2 \in {line_to(c1, right, y)} |->
    With([c3 \in {line_to(c2, right, RSub(bottom, radius))} |->
    With([c4 \in {arc(c3, RSub(right, radius), RSub(bottom, radius), radius, 0, 1)} |->
    With([c5 \in {line_to(c4, RAdd(x, radius), bottom)} |->
    With([c6 \in {arc(c5, RAdd(x, radius), RSub(bottom, radius), radius, 1, 2)} |->
        close_path(c6) ]) ]) ]) ]) ]) ]) ])

path_cut_rect(c, rect, corner) ==
    With([x0 \in {rect.x0}, y0 \in {rect.y0},
          x1 \in {RAdd(rect.x0, rect.width)}, y1 \in {RAdd(rect.y0, rect.height)} |->
    With([c1 \in {move_to(new_path(c), x0, RAdd(y0, corner))} |->
    With([c2 \in {line_to(c1, RAdd(x0, corner), y0)} |->
    With([c3 \in {line_to(c2, RSub(x1, corner), y0)} |->
    With([c4 \in {line_to(c3, x1, RAdd(y0, corner))} |->
    With([c5 \in {line_to(c4, x1, RSub(y1, corner))} |->
    With([c6 \in {line_to(c5, RSub(x1, corner), y1)} |->
    With([c7 \in {line_to(c6, RAdd(x0, corner), y1)} |->
    With([c8 \in {line_to(c7, x0, RSub(y1, corner))} |->
        close_path(c8) ]) ]) ]) ]) ]) ]) ]) ]) ])

\* move_to the first point, line_to the others, close_path.
RECURSIVE line_to_all(_, _)
line_to_all(c, points) ==
    IF points = <<>> THEN c
    ELSE line_to_all(line_to(c, Head(points).x, Head(points).y), Tail(points))

polygon(c, points) ==
    close_path(line_to_all(move_to(new_path(c), points[1].x, points[1].y), Tail(points)))

\* x0 + f * w, the coordinates of the polygons below.
Along(x0, f, w) == RAdd(x0, RMul(f, w))

path_hexagon(c, rect) ==
    With([x0 \in {rect.x0}, y0 \in {rect.y0}, w \in {rect.width}, h \in {rect.height} |->
        polygon(c, << [x |-> x0, y |-> Along(y0, Rat(1, 2), h)],
                      [x |-> Along(x0, Rat(1, 4), w), y |-> y0],
                      [x |-> Along(x0, Rat(3, 4), w), y |-> y0],
                      [x |-> RAdd(x0, w), y |-> Along(y0, Rat(1, 2), h)],
                      [x |-> Along(x0, Rat(3, 4), w), y |-> RAdd(y0, h)],
                      [x |-> Along(x0, Rat(1, 4), w), y |-> RAdd(y0, h)] >>) ])

path_concave_hexagon(c, rect) ==
    With([x0 \in {rect.x0}, y0 \in {rect.y0}, w \in {rect.width}, h \in {rect.height} |->
        polygon(c, << [x |-> x0, y |-> y0],
                      [x |-> RAdd(x0, w), y |-> y0],
                      [x |-> Along(x0, Rat(85, 100), w), y |-> Along(y0, Rat(1, 2), h)],
                      [x |-> RAdd(x0, w), y |-> RAdd(y0, h)],
                      [x |-> x0, y |-> RAdd(y0, h)],
                      [x |-> Along(x0, Rat(15, 100), w), y |-> Along(y0, Rat(1, 2), h)] >>) ])

\* Fails with "Missing current point" where there is none; path_barrel, its
\* only caller, always has one.
quad_curve_to(c, cx, cy, x, y) ==
    With([p0 \in {current_point(c)[1]} |->
        curve_to(c, RAdd(p0.x, RMul(Rat(2, 3), RSub(cx, p0.x))),
                    RAdd(p0.y, RMul(Rat(2, 3), RSub(cy, p0.y))),
                    RAdd(x, RMul(Rat(2, 3), RSub(cx, x))),
                    RAdd(y, RMul(Rat(2, 3), RSub(cy, y))),
                    x, y) ])

path_barrel(c, rect) ==
    With([x \in {rect.x0}, y \in {rect.y0}, w \in {rect.width}, h \in {rect.height} |->
    With([top_y \in {Along(y, Rat(3, 100), h)},
          bottom_y \in {Along(y, Rat(97, 100), h)} |->
    With([c1 \in {line_to(move_to(new_path(c), x, top_y), x, bottom_y)} |->
    With([c2 \in {quad_curve_to(c1, Along(x, Rat(6, 100), w), RAdd(y, h),
                                    Along(x, Rat(25, 100), w), RAdd(y, h))} |->
    With([c3 \in {line_to(c2, Along(x, Rat(75, 100), w), RAdd(y, h))} |->
    With([c4 \in {quad_curve_to(c3, Along(x, Rat(95, 100), w), RAdd(y, h),
                                    RAdd(x, w), Along(y, Rat(95, 100), h))} |->
    With([c5 \in {line_to(c4, RAdd(x, w), Along(y, Rat(5, 100), h))} |->
    With([c6 \in {quad_curve_to(c5, RAdd(x, w), y, Along(x, Rat(75, 100), w), y)} |->
    With([c7 \in {line_to(c6, Along(x, Rat(25, 100), w), y)} |->
    With([c8 \in {quad_curve_to(c7, Along(x, Rat(6, 100), w), y, x, top_y)} |->
        close_path(c8) ]) ]) ]) ]) ]) ]) ]) ]) ]) ])

path_tag(c, rect, notch) ==
    With([x0 \in {rect.x0}, y0 \in {rect.y0},
          x1 \in {RAdd(rect.x0, rect.width)}, y1 \in {RAdd(rect.y0, rect.height)} |->
    With([mid_y \in {RDiv(RAdd(y0, y1), R(2))} |->
    With([c1 \in {move_to(new_path(c), RAdd(x0, notch), y0)} |->
    With([c2 \in {line_to(c1, x1, y0)} |->
    With([c3 \in {line_to(c2, x1, y1)} |->
    With([c4 \in {line_to(c3, RAdd(x0, notch), y1)} |->
    With([c5 \in {line_to(c4, x0, mid_y)} |->
        close_path(c5) ]) ]) ]) ]) ]) ]) ])

\* The closures handed to draw_shape_with_clone.
round_rect_bbox_path(c, rect) ==
    path_round_rect(c, rect, RMax(RMul(RMin(rect.width, rect.height), Rat(1, 10)), R(1)))

tag_path(c, rect) == path_tag(c, rect, RMax(RMul(rect.height, Rat(3, 10)), R(2)))

stadium_path(c, rect) ==
    path_round_rect_impl(c, rect.x0, rect.y0, rect.width, rect.height,
                         RMul(Rat(24, 100), RMax(rect.width, rect.height)))

macromolecule_path(c, rect) ==
    path_round_rect_impl(c, rect.x0, rect.y0, rect.width, rect.height,
                         RMax(RMul(RMin(rect.width, rect.height), Rat(1, 10)), R(1)))

nucleic_acid_feature_path(c, rect) ==
    path_round_bottom_rect_impl(c, rect.x0, rect.y0, rect.width, rect.height,
                                RMax(RMul(rect.height, Rat(3, 10)), R(1)))

complex_path(c, rect) ==
    path_cut_rect(c, rect, RMax(RMul(RMin(rect.width, rect.height), Rat(2, 10)), R(1)))

\* A path_fn argument is the function from the rectangle it is called with
\* to the path it traces there, [r \in {rect} |-> Traced(path(c, r))]: every
\* path function starts with new_path and leaves nothing but its path in
\* the context, and the matrix is the same at each of its calls.
Traced(c) == [path |-> c.path, cp |-> c.cp, sp |-> c.sp]

\* path_fn(ctx, rect)
call_path_fn(path_fn, c, rect) ==
    [c EXCEPT !.path = path_fn[rect].path, !.cp = path_fn[rect].cp, !.sp = path_fn[rect].sp]

----------------------------------------------------------------------------
(* Text drawing.                                                           *)
Layout(text, font_px) == [text |-> text, font_px |-> font_px]

\* draw_text_at without its closing set_line_width.
draw_text_at_unrestored(c, x, y, layout) ==
    With([c1 \in {layout_path(move_to(c, x, y), layout)} |->
    With([c2 \in {stroke_preserve(set_line_width(set_source_rgb(c1, WHITE),
                                                 TEXT_OUTLINE_WIDTH))} |->
    With([c3 \in {fill(set_source_rgb(c2, BORDER_COLOR))} |->
        Ret(c3, "draw_text_at") ]) ]) ])

draw_text_at(c, x, y, layout) ==
    With([c1 \in {layout_path(move_to(c, x, y), layout)} |->
    With([c2 \in {IF RLt(R(0), TEXT_OUTLINE_WIDTH)
                  THEN stroke_preserve(set_line_width(set_source_rgb(c1, WHITE),
                                                      TEXT_OUTLINE_WIDTH))
                  ELSE c1} |->
    With([c3 \in {fill(set_source_rgb(c2, BORDER_COLOR))} |->
        Ret(set_line_width(c3, DEFAULT_LINE_WIDTH), "draw_text_at") ]) ]) ])

\* A blank text returns early: nothing is drawn and the context is untouched.
draw_text_centered(c, center, text, font_px) ==
    IF IsBlank(text) THEN c
    ELSE With([layout \in {Layout(text, font_px)} |->
         With([size \in {pixel_size(layout)} |->
             Ret(draw_text_at(c, RSub(center.x, RDiv(R(size.width), R(2))),
                                 RSub(center.y, RDiv(R(size.height), R(2))), layout),
                 "draw_text_centered") ]) ])

\* draw_text_bottom_centered that sets the text on the bottom edge.
draw_text_bottom_centered_flush(c, rect, text, font_px) ==
    IF IsBlank(text) THEN c
    ELSE With([layout \in {Layout(text, font_px)} |->
         With([size \in {pixel_size(layout)} |->
             Ret(draw_text_at(c, RSub(rect.center.x, RDiv(R(size.width), R(2))),
                                 RSub(RAdd(rect.y0, rect.height), R(size.height)),
                                 layout),
                 "draw_text_bottom_centered") ]) ])

draw_text_bottom_centered(c, rect, text, font_px) ==
    IF IsBlank(text) THEN c
    ELSE With([layout \in {Layout(text, font_px)} |->
         With([size \in {pixel_size(layout)} |->
             Ret(draw_text_at(c, RSub(rect.center.x, RDiv(R(size.width), R(2))),
                                 RSub(RSub(RAdd(rect.y0, rect.height), R(size.height)), R(2)),
                                 layout),
                 "draw_text_bottom_centered") ]) ])

measure_text_width(text, font_px) == R(pixel_size(Layout(text, font_px)).width)

----------------------------------------------------------------------------
(* Shapes with a clone marker.                                             *)
draw_clone_marker(c, rect, path_fn) ==
    With([marker_height \in {RMax(RMul(rect.height, CLONE_MARKER_HEIGHT_RATIO), R(1))},
          marker_width \in {rect.width} |->
    With([marker_x \in {RSub(rect.center.x, RDiv(marker_width, R(2)))},
          marker_y \in {RSub(RAdd(rect.y0, rect.height), marker_height)} |->
    With([c1 \in {clip(call_path_fn(path_fn, save(c), rect))} |->
    With([c2 \in {rectangle(new_path(c1), marker_x, marker_y, marker_width,
                            marker_height)} |->
    With([c3 \in {fill_preserve(set_source_rgb(c2, CLONE_MARKER_FILL_COLOR))} |->
    With([c4 \in {set_line_width(set_source_rgb(c3, AUX_LINE_COLOR),
                                 RMax(CLONE_MARKER_STROKE_WIDTH, R(1)))} |->
    With([c5 \in {restore(stroke(c4))} |->
    With([c6 \in {set_line_width(set_source_rgb(c5, BORDER_COLOR), DEFAULT_LINE_WIDTH)} |->
        Ret(c6, "draw_clone_marker") ]) ]) ]) ]) ]) ]) ]) ])

draw_shape_with_clone(c, rect, label, font_px, has_clone, line_width, fill_color, path_fn) ==
    With([c1 \in {set_line_width(c, RMax(line_width, Rat(1, 2)))} |->
    With([c2 \in {call_path_fn(path_fn, c1, rect)} |->
    With([c3 \in {IF fill_color # None
                  THEN fill_preserve(set_source_rgb(c2, fill_color[1]))
                  ELSE c2} |->
    With([c4 \in {stroke(set_source_rgb(c3, BORDER_COLOR))} |->
    With([c5 \in {IF has_clone
                  THEN stroke(set_source_rgb(
                           call_path_fn(path_fn, draw_clone_marker(c4, rect, path_fn), rect),
                           BORDER_COLOR))
                  ELSE c4} |->
    With([c6 \in {draw_text_centered(c5, rect.center, label, font_px)} |->
        Ret(set_line_width(c6, DEFAULT_LINE_WIDTH), "draw_shape_with_clone")
    ]) ]) ]) ]) ]) ])

\* draw_box_bbox with the ellipse path.
draw_box_bbox_ellipse(c, t, bbox, label, font_px, has_clone) ==
    With([rect \in {bbox_pixel_rect(t, bbox)} |->
        draw_shape_with_clone(c, rect, label, font_px, has_clone,
                              DEFAULT_LINE_WIDTH, Some(DEFAULT_FILL_COLOR),
                              [r \in {rect} |-> Traced(path_ellipse(c, r))]) ])

draw_box_bbox(c, t, bbox, label, font_px, has_clone) ==
    With([rect \in {bbox_pixel_rect(t, bbox)} |->
        draw_shape_with_clone(c, rect, label, font_px, has_clone,
                              DEFAULT_LINE_WIDTH, Some(DEFAULT_FILL_COLOR),
                              [r \in {rect} |-> Traced(path_rect(c, r))]) ])

draw_process_debug_bbox(c, t, bbox) ==
    With([rect \in {bbox_pixel_rect(t, bbox)} |->
    With([inset_rect \in {[ x0 |-> RSub(rect.x0, R(10)), y0 |-> RSub(rect.y0, R(10)),
                            width |-> RAdd(rect.width, R(20)),
                            height |-> RAdd(rect.height, R(20)),
                            center |-> rect.center ]} |->
    With([c1 \in {set_line_width(set_source_rgb(c, MAGENTA), R(1))} |->
    With([c2 \in {stroke(path_rect(c1, inset_rect))} |->
        Ret(set_line_width(set_source_rgb(c2, BORDER_COLOR), DEFAULT_LINE_WIDTH),
            "draw_process_debug_bbox") ]) ]) ]) ])

draw_logical_debug_bbox(c, t, bbox) ==
    With([rect \in {bbox_pixel_rect(t, bbox)} |->
    With([c1 \in {set_line_width(set_source_rgb(c, MAGENTA), R(1))} |->
    With([c2 \in {stroke(path_rect(c1, rect))} |->
        Ret(set_line_width(set_source_rgb(c2, BORDER_COLOR), DEFAULT_LINE_WIDTH),
            "draw_logical_debug_bbox") ]) ]) ])

draw_square_bbox(c, t, bbox, label, font_px, has_clone) ==
    With([side \in {RMin(bbox.w, bbox.h)},
          center \in {map_point(t, RAdd(bbox.x, RDiv(bbox.w, R(2))),
                                   RAdd(bbox.y, RDiv(bbox.h, R(2))))} |->
    With([side_px \in {map_size(t, side, side)[1]} |->
    With([rect \in {[ x0 |-> RSub(center.x, RDiv(side_px, R(2))),
                      y0 |-> RSub(center.y, RDiv(side_px, R(2))),
                      width |-> side_px, height |-> side_px, center |-> center ]} |->
        draw_shape_with_clone(c, rect, label, font_px, has_clone,
                              DEFAULT_LINE_WIDTH, Some(DEFAULT_FILL_COLOR),
                              [r \in {rect} |-> Traced(path_rect(c, r))]) ]) ]) ])

draw_ellipse_bbox_filled(c, t, bbox, label, font_px, fill_rgb) ==
    With([rect \in {bbox_pixel_rect(t, bbox)} |->
    With([c1 \in {set_line_width(path_ellipse(c, rect), DEFAULT_LINE_WIDTH)} |->
    With([c2 \in {fill_preserve(set_source_rgb(c1, fill_rgb))} |->
    With([c3 \in {stroke(set_source_rgb(c2, BORDER_COLOR))} |->
        Ret(draw_text_centered(c3, rect.center, label, font_px),
            "draw_ellipse_bbox_filled") ]) ]) ]) ])

draw_double_circle_bbox(c, t, bbox, label, font_px) ==
    With([rect \in {bbox_pixel_rect(t, bbox)} |->
    With([radius \in {RMax(RDiv(RMin(rect.width, rect.height), R(2)), R(1))} |->
    With([c1 \in {set_line_width(new_path(c), DEFAULT_LINE_WIDTH)} |->
    With([c2 \in {arc(c1, rect.center.x, rect.center.y, radius, 0, 4)} |->
    With([c3 \in {fill_preserve(set_source_rgb(c2, DEFAULT_FILL_COLOR))} |->
    With([c4 \in {stroke(set_source_rgb(c3, BORDER_COLOR))} |->
    With([c5 \in {arc(new_path(c4), rect.center.x, rect.center.y,
                      RMax(RMul(radius, Rat(6, 10)), R(1)), 0, 4)} |->
    With([c6 \in {stroke(set_source_rgb(c5, BORDER_COLOR))} |->
        Ret(draw_text_centered(c6, rect.center, label, font_px),
            "draw_double_circle_bbox") ]) ]) ]) ]) ]) ]) ]) ])

draw_round_rect_bbox(c, t, bbox, label, font_px, has_clone) ==
    With([rect \in {bbox_pixel_rect(t, bbox)} |->
        draw_shape_with_clone(c, rect, label, font_px, has_clone,
                              DEFAULT_LINE_WIDTH, Some(DEFAULT_FILL_COLOR),
                              [r \in {rect} |-> Traced(round_rect_bbox_path(c, r))]) ])

draw_hexagon_bbox(c, t, bbox, label, font_px, has_clone) ==
    With([rect \in {bbox_pixel_rect(t, bbox)} |->
        draw_shape_with_clone(c, rect, label, font_px, has_clone,
                              DEFAULT_LINE_WIDTH, Some(DEFAULT_FILL_COLOR),
                              [r \in {rect} |-> Traced(path_hexagon(c, r))]) ])

draw_source_sink_bbox(c, t, bbox, has_clone) ==
    With([rect \in {bbox_pixel_rect(t, bbox)} |->
    With([c1 \in {set_line_width(path_ellipse(c, rect), DEFAULT_LINE_WIDTH)} |->
    With([c2 \in {fill_preserve(set_source_rgb(c1, DEFAULT_FILL_COLOR))} |->
    With([c3 \in {stroke(set_source_rgb(c2, BORDER_COLOR))} |->
    With([c4 \in {IF has_clone
                  THEN With([path_fn \in {[r \in {rect} |-> Traced(path_ellipse(c3, r))]} |->
                           stroke(set_source_rgb(
                               call_path_fn(path_fn, draw_clone_marker(c3, rect, path_fn), rect),
                               BORDER_COLOR)) ])
                  ELSE c3} |->
    With([c5 \in {move_to(new_path(c4), rect.x0, RAdd(rect.y0, rect.height))} |->
    With([c6 \in {line_to(c5, RAdd(rect.x0, rect.width), rect.y0)} |->
        Ret(stroke(c6), "draw_source_sink_bbox") ]) ]) ]) ]) ]) ]) ])

draw_barrel_bbox(c, t, bbox, label, font_px, has_clone) ==
    With([rect \in {bbox_pixel_rect(t, bbox)} |->
        draw_shape_with_clone(c, rect, label, font_px, has_clone,
                              R(4), Some(DEFAULT_FILL_COLOR),
                              [r \in {rect} |-> Traced(path_barrel(c, r))]) ])

draw_tag_bbox(c, t, bbox, label, font_px, has_clone) ==
    With([rect \in {bbox_pixel_rect(t, bbox)} |->
        draw_shape_with_clone(c, rect, label, font_px, has_clone,
                              DEFAULT_LINE_WIDTH, Some(DEFAULT_FILL_COLOR),
                              [r \in {rect} |-> Traced(tag_path(c, r))]) ])

draw_stadium_bbox(c, t, bbox, label, font_px, has_clone) ==
    With([rect \in {bbox_pixel_rect(t, bbox)} |->
        draw_shape_with_clone(c, rect, label, font_px, has_clone,
                              DEFAULT_LINE_WIDTH, Some(DEFAULT_FILL_COLOR),
                              [r \in {rect} |-> Traced(stadium_path(c, r))]) ])

draw_circle_bbox(c, t, bbox, label, font_px) ==
    With([center \in {map_point(t, RAdd(bbox.x, RDiv(bbox.w, R(2))),
                                   RAdd(bbox.y, RDiv(bbox.h, R(2))))},
          radius \in {scale_scalar(t, RDiv(RMin(bbox.w, bbox.h), R(2)))} |->
    With([c1 \in {arc(c, center.x, center.y, radius, 0, 4)} |->
    With([c2 \in {fill_preserve(set_source_rgb(c1, DEFAULT_FILL_COLOR))} |->
    With([c3 \in {stroke(set_source_rgb(c2, BORDER_COLOR))} |->
        Ret(draw_text_centered(c3, center, label, font_px), "draw_circle_bbox")
    ]) ]) ]) ])

----------------------------------------------------------------------------
(* Class-keyed tables.                                                     *)
default_dimensions(class_name) ==
    CASE class_name = <<"unspecified", "entity">> -> Some(<<R(32), R(32)>>)
      [] class_name \in {<<"simple", "chemical">>, <<"simple", "chemical", "multimer">>}
            -> Some(<<R(48), R(48)>>)
      [] class_name \in {<<"macromolecule">>, <<"macromolecule", "multimer">>}
            -> Some(<<R(96), R(48)>>)
      [] class_name = <<"nucleic", "acid", "feature">> -> Some(<<R(88), R(56)>>)
      [] class_name = <<"nucleic", "acid", "feature", "multimer">> -> Some(<<R(88), R(52)>>)
      [] class_name \in {<<"complex">>, <<"complex", "multimer">>} -> Some(<<R(10), R(10)>>)
      [] class_name = <<"source", "and", "sink">> -> Some(<<R(60), R(60)>>)
      [] class_name = <<"perturbing", "agent">> -> Some(<<R(140), R(60)>>)
      [] class_name = <<"phenotype">> -> Some(<<R(140), R(60)>>)
      [] class_name \in {<<"process">>, <<"uncertain", "process">>, <<"omitted", "process">>}
            -> Some(<<R(25), R(25)>>)
      [] class_name \in {<<"association">>, <<"dissociation">>} -> Some(<<R(25), R(25)>>)
      [] class_name = <<"compartment">> -> Some(<<R(50), R(50)>>)
      [] class_name = <<"tag">> -> Some(<<R(100), R(65)>>)
      [] class_name \in {<<"and">>, <<"or">>, <<"not">>} -> Some(<<R(40), R(40)>>)
      [] OTHER -> None

glyph_font_px(class_name) ==
    IF class_name \in { <<"state", "variable">>, <<"unit", "of", "information">>,
                        <<"cardinality">>, <<"variable", "value">>, <<"tag">>,
                        <<"terminal">> }
    THEN FONT_SMALL_PX
    ELSE FONT_MAIN_PX

entity_pool_fill_color(class_name) ==
    IF class_name = <<"complex">> THEN Some(DEFAULT_FILL_COLOR) ELSE Some(DEFAULT_FILL_COLOR)

entity_pool_border_width(class_name) ==
    IF class_name = <<"complex">> THEN R(4) ELSE R(2)

\* ghost_offset_for with the offsets of macromolecule and complex exchanged.
ghost_offset_for_exchanged(class_name) ==
    CASE class_name = <<"simple", "chemical">> -> Some(<<R(5), R(5)>>)
      [] class_name \in {<<"complex">>, <<"nucleic", "acid", "feature">>}
            -> Some(<<R(12), R(12)>>)
      [] class_name = <<"macromolecule">> -> Some(<<R(16), R(16)>>)
      [] OTHER -> None

ghost_offset_for(class_name) ==
    CASE class_name = <<"simple", "chemical">> -> Some(<<R(5), R(5)>>)
      [] class_name \in {<<"macromolecule">>, <<"nucleic", "acid", "feature">>}
            -> Some(<<R(12), R(12)>>)
      [] class_name = <<"complex">> -> Some(<<R(16), R(16)>>)
      [] OTHER -> None

\* port_connector_len_px_for_class with one length for every class.
port_connector_len_px_for_class_alike(class_name) == PORT_CONNECTOR_LEN_PX

port_connector_len_px_for_class(class_name) ==
    IF class_name \in {<<"and">>, <<"or">>, <<"not">>}
    THEN LOGICAL_PORT_CONNECTOR_LEN_PX
    ELSE PORT_CONNECTOR_LEN_PX

\* state_var_label with the variable before the value.
state_var_label_exchanged(value, variable) ==
    CASE value # None /\ variable # None /\ value[1] # <<>> /\ variable[1] # <<>>
            -> variable[1] \o <<"@">> \o value[1]
      [] value # None /\ value[1] # <<>> -> value[1]
      [] variable # None /\ variable[1] # <<>> -> variable[1]
      [] OTHER -> <<>>

state_var_label(value, variable) ==
    CASE value # None /\ variable # None /\ value[1] # <<>> /\ variable[1] # <<>>
            -> value[1] \o <<"@">> \o variable[1]
      [] value # None /\ value[1] # <<>> -> value[1]
      [] variable # None /\ variable[1] # <<>> -> variable[1]
      [] OTHER -> <<>>

\* children.iter().find(|child| child.class_name == class_name)
RECURSIVE find_child(_, _)
find_child(children, class_name) ==
    IF children = <<>> THEN None
    ELSE IF Head(children).class_name = class_name THEN Some(Head(children))
    ELSE find_child(Tail(children), class_name)

first_child_label(children, class_name) ==
    With([child \in {find_child(children, class_name)} |->
        IF child = None THEN None
        ELSE IF IsBlank(child[1].label) THEN None ELSE Some(child[1].label) ])

first_child_state_label(children, class_name) ==
    With([child \in {find_child(children, class_name)} |->
        IF child = None THEN None
        ELSE With([label \in {IF ~IsBlank(child[1].label) THEN child[1].label
                              ELSE state_var_label(child[1].state_value,
                                                   child[1].state_variable)} |->
                 IF IsBlank(label) THEN None ELSE Some(label) ]) ])

----------------------------------------------------------------------------
(* Overlays, ticks.                                                        *)
px_x(rect, value, scale_x) == RAdd(rect.x0, RMul(value, scale_x))
px_y(rect, value, scale_y) == RAdd(rect.y0, RMul(value, scale_y))

draw_overlay_line(c, rect, y, line_width, color) ==
    With([c1 \in {set_source_rgb(set_line_width(c, RMax(line_width, R(1))), color)} |->
    With([c2 \in {line_to(move_to(new_path(c1), rect.x0, y),
                          RAdd(rect.x0, rect.width), y)} |->
    With([c3 \in {stroke(c2)} |->
        Ret(set_line_width(set_source_rgb(c3, BORDER_COLOR), DEFAULT_LINE_WIDTH),
            "draw_overlay_line") ]) ]) ])

draw_unit_info(c, x, y, height, label, border_width, font_px, padding_px) ==
    With([text_width \in {measure_text_width(label, font_px)} |->
    With([width \in {RMax(RAdd(text_width, padding_px), R(10))} |->
    With([rect \in {[ x0 |-> x, y0 |-> y, width |-> width, height |-> height,
                      center |-> [ x |-> RAdd(x, RDiv(width, R(2))),
                                   y |-> RAdd(y, RDiv(height, R(2))) ] ]} |->
    With([c1 \in {set_line_width(c, RMax(border_width, R(1)))} |->
    With([c2 \in {path_round_rect_impl(c1, rect.x0, rect.y0, rect.width, rect.height,
                                       RMul(rect.width, Rat(4, 100)))} |->
    With([c3 \in {fill_preserve(set_source_rgb(c2, WHITE))} |->
    With([c4 \in {stroke(set_source_rgb(c3, BORDER_COLOR))} |->
    With([c5 \in {draw_text_centered(c4, rect.center, label, font_px)} |->
        Ret(set_line_width(c5, DEFAULT_LINE_WIDTH), "draw_unit_info")
    ]) ]) ]) ]) ]) ]) ]) ])

draw_state_var(c, x, y, height, label, border_width, font_px, padding_px, min_width) ==
    With([text_width \in {measure_text_width(label, font_px)} |->
    With([width \in {RMax(RAdd(text_width, padding_px), min_width)} |->
    With([rect \in {[ x0 |-> x, y0 |-> y, width |-> width, height |-> height,
                      center |-> [ x |-> RAdd(x, RDiv(width, R(2))),
                                   y |-> RAdd(y, RDiv(height, R(2))) ] ]} |->
    With([c1 \in {set_line_width(c, RMax(border_width, R(1)))} |->
    With([radius \in {RMul(Rat(24, 100), RMax(rect.width, rect.height))} |->
    With([c2 \in {path_round_rect_impl(c1, rect.x0, rect.y0, rect.width, rect.height,
                                       radius)} |->
    With([c3 \in {fill_preserve(set_source_rgb(c2, WHITE))} |->
    With([c4 \in {stroke(set_source_rgb(c3, BORDER_COLOR))} |->
    With([c5 \in {draw_text_centered(c4, rect.center, label, font_px)} |->
        Ret(set_line_width(c5, DEFAULT_LINE_WIDTH), "draw_state_var")
    ]) ]) ]) ]) ]) ]) ]) ]) ])

\* aux_arm without its second separator line.
aux_arm_one_line(c, rect, scale, a) ==
    With([border_width \in {RMul(R(2), scale)}, font_px \in {RMul(R(10), scale)} |->
    With([c1 \in {IF a.line1
                  THEN draw_overlay_line(c, rect, a.y1, RMul(a.w, scale), a.col)
                  ELSE c} |->
    With([c3 \in {IF a.u # None
                  THEN draw_unit_info(c1, a.u[1].x, a.u[1].y, a.u[1].height, a.u_label[1],
                                      border_width, font_px, RMul(R(5), scale))
                  ELSE c1} |->
        IF a.s # None
        THEN draw_state_var(c3, a.s[1].x, a.s[1].y, a.s[1].height, a.s_label[1],
                            border_width, font_px, RMul(R(10), scale),
                            RMul(R(30), scale))
        ELSE c3 ]) ]) ])

\* The two separator lines, unit-of-information box and state-variable box of
\* one arm of draw_entity_pool_aux_items. The arm a says whether each line is
\* drawn (line1, line2), their reference offsets (y1, y2), width (w) and
\* colour (col), and the boxes u and s (None: no box) as [x, y, height] with
\* their labels.
aux_arm(c, rect, scale, a) ==
    With([border_width \in {RMul(R(2), scale)}, font_px \in {RMul(R(10), scale)} |->
    With([c1 \in {IF a.line1
                  THEN draw_overlay_line(c, rect, a.y1, RMul(a.w, scale), a.col)
                  ELSE c} |->
    With([c2 \in {IF a.line2
                  THEN draw_overlay_line(c1, rect, a.y2, RMul(a.w, scale), a.col)
                  ELSE c1} |->
    With([c3 \in {IF a.u # None
                  THEN draw_unit_info(c2, a.u[1].x, a.u[1].y, a.u[1].height, a.u_label[1],
                                      border_width, font_px, RMul(R(5), scale))
                  ELSE c2} |->
        IF a.s # None
        THEN draw_state_var(c3, a.s[1].x, a.s[1].y, a.s[1].height, a.s_label[1],
                            border_width, font_px, RMul(R(10), scale),
                            RMul(R(30), scale))
        ELSE c3 ]) ]) ]) ])

\* The arm of the match on class_name in draw_entity_pool_aux_items, None
\* for the classes of its last arm, which draws nothing.
aux_arm_of(rect, class_name, u_info_label, s_var_label, scale_x, scale_y) ==
    With([clone_shrink_y \in {RMul(R(3), scale_y)},
          has_u \in {u_info_label # None}, has_s \in {s_var_label # None} |->
    With([u_info_height \in {RSub(RMul(R(20), scale_y), clone_shrink_y)} |->
        LET Arm(line1, y1, line2, y2, w, col, u, u_label, s, s_label) ==
                [ line1 |-> line1, y1 |-> y1, line2 |-> line2, y2 |-> y2, w |-> w,
                  col |-> col, u |-> u, u_label |-> u_label, s |-> s, s_label |-> s_label ]
            Box(on, x, y, height) ==
                IF on THEN Some([x |-> x, y |-> y, height |-> height]) ELSE None
        IN
        CASE class_name = <<"simple", "chemical">> ->
               Some(Arm(has_u, px_y(rect, R(8), scale_y),
                        has_u, px_y(rect, R(52), scale_y), R(1), AUX_LINE_COLOR,
                        Box(has_u, px_x(rect, R(12), scale_x), px_y(rect, R(0), scale_y),
                            u_info_height), u_info_label,
                        None, None))
          [] class_name \in {<<"unspecified", "entity">>, <<"macromolecule">>} ->
               Some(Arm(has_u \/ has_s, px_y(rect, R(8), scale_y),
                        has_u, px_y(rect, R(52), scale_y), R(1), AUX_LINE_COLOR,
                        Box(has_u, px_x(rect, R(20), scale_x), px_y(rect, R(44), scale_y),
                            u_info_height), u_info_label,
                        Box(has_s, px_x(rect, R(40), scale_x), rect.y0, u_info_height),
                        s_var_label))
          [] class_name = <<"nucleic", "acid", "feature">> ->
               Some(Arm(has_s, px_y(rect, R(8), scale_y),
                        has_u, px_y(rect, R(52), scale_y), R(1), AUX_LINE_COLOR,
                        Box(has_u, px_x(rect, R(20), scale_x), px_y(rect, R(44), scale_y),
                            u_info_height), u_info_label,
                        Box(has_s, px_x(rect, R(40), scale_x), rect.y0, u_info_height),
                        s_var_label))
          [] class_name = <<"complex">> ->
               Some(Arm(has_u \/ has_s, px_y(rect, R(11), scale_y),
                        FALSE, R(0), R(6), BORDER_COLOR,
                        Box(has_u, RAdd(rect.x0, RMul(rect.width, Rat(25, 100))), rect.y0,
                            RSub(RMul(R(24), scale_y), clone_shrink_y)), u_info_label,
                        Box(has_s, RAdd(rect.x0, RMul(rect.width, Rat(88, 100))), rect.y0,
                            RSub(RMul(R(24), scale_y), clone_shrink_y)), s_var_label))
          [] class_name = <<"perturbing", "agent">> ->
               Some(Arm(has_u, px_y(rect, R(8), scale_y),
                        has_u, px_y(rect, R(56), scale_y), R(1), AUX_LINE_COLOR,
                        Box(has_u, px_x(rect, R(20), scale_x), rect.y0, u_info_height),
                        u_info_label,
                        None, None))
          [] OTHER -> None ]) ])

draw_entity_pool_aux_items(c, rect, class_name, u_info_label, s_var_label) ==
    With([ref \in {UnwrapOr(default_dimensions(class_name),
                            <<rect.width, rect.height>>)} |->
    With([scale_x \in {RDiv(rect.width, ref[1])},
          scale_y \in {RDiv(rect.height, ref[2])} |->
    With([scale \in {RDiv(RAdd(scale_x, scale_y), R(2))},
          a \in {aux_arm_of(rect, class_name, u_info_label, s_var_label,
                            scale_x, scale_y)} |->
        Ret(IF a = None THEN c ELSE aux_arm(c, rect, scale, a[1]),
            "draw_entity_pool_aux_items") ]) ]) ])

\* A tick from (x1, y1) to (x2, y2), appended to the current path.
Tick(c, x1, y1, x2, y2) == line_to(move_to(c, x1, y1), x2, y2)

\* draw_orientation_marker that draws a horizontal marker on the left only.
draw_orientation_marker_one_sided(c, t, bbox, orientation, connector_len_px) ==
    With([rect \in {bbox_pixel_rect(t, bbox)},
          len \in {connector_len_px},
          c0 \in {set_line_width(set_source_rgb(c, BORDER_COLOR), DEFAULT_LINE_WIDTH)} |->
        LET Up(k) == Tick(k, rect.center.x, RSub(rect.y0, len), rect.center.x, rect.y0)
            Down(k) == Tick(k, rect.center.x, RAdd(rect.y0, rect.height),
                               rect.center.x, RAdd(RAdd(rect.y0, rect.height), len))
            Left(k) == Tick(k, RSub(rect.x0, len), rect.center.y, rect.x0, rect.center.y)
            Right(k) == Tick(k, RAdd(rect.x0, rect.width), rect.center.y,
                                RAdd(RAdd(rect.x0, rect.width), len), rect.center.y)
        IN  Ret(CASE orientation = "vertical" -> stroke(Down(Up(new_path(c0))))
                  [] orientation = "horizontal" -> stroke(Left(new_path(c0)))
                  [] orientation = "left" -> stroke(Left(new_path(c0)))
                  [] orientation = "right" -> stroke(Right(new_path(c0)))
                  [] orientation = "up" -> stroke(Up(new_path(c0)))
                  [] orientation = "down" -> stroke(Down(new_path(c0)))
                  [] OTHER -> c0,
                "draw_orientation_marker") ])

draw_orientation_marker(c, t, bbox, orientation, connector_len_px) ==
    With([rect \in {bbox_pixel_rect(t, bbox)},
          len \in {connector_len_px},
          c0 \in {set_line_width(set_source_rgb(c, BORDER_COLOR), DEFAULT_LINE_WIDTH)} |->
        LET Up(k) == Tick(k, rect.center.x, RSub(rect.y0, len), rect.center.x, rect.y0)
            Down(k) == Tick(k, rect.center.x, RAdd(rect.y0, rect.height),
                               rect.center.x, RAdd(RAdd(rect.y0, rect.height), len))
            Left(k) == Tick(k, RSub(rect.x0, len), rect.center.y, rect.x0, rect.center.y)
            Right(k) == Tick(k, RAdd(rect.x0, rect.width), rect.center.y,
                                RAdd(RAdd(rect.x0, rect.width), len), rect.center.y)
        IN  Ret(CASE orientation = "vertical" -> stroke(Down(Up(new_path(c0))))
                  [] orientation = "horizontal" -> stroke(Right(Left(new_path(c0))))
                  [] orientation = "left" -> stroke(Left(new_path(c0)))
                  [] orientation = "right" -> stroke(Right(new_path(c0)))
                  [] orientation = "up" -> stroke(Up(new_path(c0)))
                  [] orientation = "down" -> stroke(Down(new_path(c0)))
                  [] OTHER -> c0,
                "draw_orientation_marker") ])

----------------------------------------------------------------------------
(* Entity pool nodes.                                                      *)
draw_entity_pool_base_shape(c, rect, class_name, label, font_px, has_clone, fill_color, border_width) ==
    Ret(draw_shape_with_clone(
            c, rect, label, font_px, has_clone, border_width, fill_color,
            [r \in {rect} |-> Traced(
                CASE class_name \in {<<"simple", "chemical">>, <<"unspecified", "entity">>}
                        -> path_ellipse(c, r)
                  [] class_name = <<"macromolecule">> -> macromolecule_path(c, r)
                  [] class_name = <<"nucleic", "acid", "feature">>
                        -> nucleic_acid_feature_path(c, r)
                  [] class_name = <<"complex">> -> complex_path(c, r)
                  [] class_name = <<"perturbing", "agent">> -> path_concave_hexagon(c, r)
                  [] OTHER -> path_rect(c, r))]),
        "draw_entity_pool_base_shape")

\* The ghost rectangle of a multimer.
ghost_rect_of(rect, ghost, scale_x, scale_y) ==
    [ x0 |-> RAdd(rect.x0, RMul(ghost[1], scale_x)),
      y0 |-> RAdd(rect.y0, RMul(ghost[2], scale_y)),
      width |-> rect.width, height |-> rect.height,
      center |-> [ x |-> RAdd(rect.center.x, RMul(ghost[1], scale_x)),
                   y |-> RAdd(rect.center.y, RMul(ghost[2], scale_y)) ] ]

draw_entity_pool_node(c, t, bbox, label, font_px, class_name, is_multimer, has_clone, u_info_label, s_var_label) ==
    With([rect \in {bbox_pixel_rect(t, bbox)}, ghost \in {ghost_offset_for(class_name)} |->
    With([ref \in {UnwrapOr(default_dimensions(class_name),
                            <<rect.width, rect.height>>)} |->
    With([c1 \in {IF is_multimer /\ ghost # None
                  THEN draw_entity_pool_base_shape(
                           c, ghost_rect_of(rect, ghost[1], RDiv(rect.width, ref[1]),
                                            RDiv(rect.height, ref[2])),
                           class_name, <<>>, FONT_SMALL_PX, FALSE,
                           entity_pool_fill_color(class_name),
                           entity_pool_border_width(class_name))
                  ELSE c} |->
    With([c2 \in {draw_entity_pool_base_shape(
                      c1, rect, class_name, label, font_px, has_clone,
                      entity_pool_fill_color(class_name),
                      entity_pool_border_width(class_name))} |->
    With([c3 \in {draw_entity_pool_aux_items(c2, rect, class_name, u_info_label,
                                             s_var_label)} |->
        Ret(c3, "draw_entity_pool_node") ]) ]) ]) ]) ])

----------------------------------------------------------------------------
(* render_glyph_tree, from the class dispatch to the bottom label: what one *)
(* call draws for a glyph that has a bounding box, before it recurses.     *)
IsAuxClass(class_name) ==
    class_name \in {<<"unit", "of", "information">>, <<"state", "variable">>}

\* children.iter().any(|child| child.class_name == class_name && child.bbox.is_some())
has_child_bbox(children, class_name) ==
    \E i \in 1..Len(children) :
        children[i].class_name = class_name /\ children[i].bbox # None

label_override(class_name) ==
    CASE class_name = <<"and">> -> Some(<<"A", "N", "D">>)
      [] class_name = <<"or">> -> Some(<<"O", "R">>)
      [] class_name = <<"not">> -> Some(<<"N", "O", "T">>)
      [] class_name = <<"omitted", "process">> -> Some(<<"\\", "\\">>)
      [] class_name = <<"uncertain", "process">> -> Some(<<"?">>)
      [] OTHER -> None

\* The label render_glyph_tree computes for a glyph.
glyph_label(glyph) ==
    LET label == UnwrapOr(label_override(glyph.class_name), glyph.label)
    IN  IF glyph.class_name = <<"state", "variable">> /\ IsBlank(label)
        THEN state_var_label(glyph.state_value, glyph.state_variable)
        ELSE label

\* The match on class_name. Its seven entity-pool arms make the same call,
\* the arms of "perturbing agent" and of "simple chemical" with and without
\* "multimer" passing None where the others pass s_var_label.
draw_glyph_shape(c, t, glyph, children, has_clone) ==
    With([bbox \in {glyph.bbox[1]},
          class_name \in {glyph.class_name},
          class_base \in {strip_suffix_multimer(glyph.class_name)},
          is_multimer \in {ends_with_multimer(glyph.class_name)},
          label \in {glyph_label(glyph)},
          font_px \in {glyph_font_px(glyph.class_name)},
          u_info_label \in {IF has_child_bbox(children, <<"unit", "of", "information">>)
                            THEN None
                            ELSE first_child_label(children,
                                                   <<"unit", "of", "information">>)},
          s_var_label \in {IF has_child_bbox(children, <<"state", "variable">>)
                           THEN None
                           ELSE first_child_state_label(children,
                                                        <<"state", "variable">>)} |->
    With([shape_label \in {IF class_base = <<"complex">> \/ class_name = <<"compartment">>
                           THEN <<>> ELSE label} |->
        CASE class_name \in {<<"phenotype">>, <<"outcome">>} ->
               draw_hexagon_bbox(c, t, bbox, shape_label, font_px, FALSE)
          [] class_name \in { <<"perturbing", "agent">>,
                              <<"simple", "chemical">>, <<"simple", "chemical", "multimer">>,
                              <<"unspecified", "entity">>,
                              <<"macromolecule">>, <<"macromolecule", "multimer">>,
                              <<"nucleic", "acid", "feature">>,
                              <<"nucleic", "acid", "feature", "multimer">>,
                              <<"complex">>, <<"complex", "multimer">> } ->
               draw_entity_pool_node(c, t, bbox, shape_label, font_px, class_base,
                                     is_multimer, has_clone, u_info_label,
                                     IF class_name \in { <<"perturbing", "agent">>,
                                                         <<"simple", "chemical">>,
                                                         <<"simple", "chemical", "multimer">> }
                                     THEN None ELSE s_var_label)
          [] class_name = <<"source", "and", "sink">> ->
               draw_source_sink_bbox(c, t, bbox, has_clone)
          [] class_name = <<"compartment">> ->
               draw_barrel_bbox(c, t, bbox, shape_label, font_px, has_clone)
          [] class_name = <<"tag">> ->
               draw_tag_bbox(c, t, bbox, shape_label, font_px, has_clone)
          [] class_name = <<"association">> ->
               draw_ellipse_bbox_filled(c, t, bbox, shape_label, font_px,
                                        ASSOCIATION_FILL_COLOR)
          [] class_name = <<"dissociation">> ->
               draw_double_circle_bbox(c, t, bbox, shape_label, font_px)
          [] class_name \in {<<"process">>, <<"omitted", "process">>, <<"uncertain", "process">>} ->
               With([c1 \in {draw_square_bbox(c, t, bbox, shape_label, font_px, FALSE)} |->
                   IF SHOW_PROCESS_DEBUG THEN draw_process_debug_bbox(c1, t, bbox) ELSE c1 ])
          [] class_name = <<"unit", "of", "information">> ->
               draw_round_rect_bbox(c, t, bbox, shape_label, font_px, FALSE)
          [] class_name = <<"state", "variable">> ->
               draw_stadium_bbox(c, t, bbox, shape_label, font_px, FALSE)
          [] class_name \in {<<"and">>, <<"or">>, <<"not">>} ->
               With([c1 \in {draw_circle_bbox(c, t, bbox, shape_label, font_px)} |->
                   IF SHOW_LOGICAL_DEBUG_BBOX THEN draw_logical_debug_bbox(c1, t, bbox)
                   ELSE c1 ])
          [] OTHER -> draw_box_bbox(c, t, bbox, shape_label, font_px, FALSE) ]) ])

\* glyph.orientation, or "horizontal" for the process-like classes.
glyph_orientation(glyph) ==
    IF glyph.orientation # None THEN glyph.orientation
    ELSE IF glyph.class_name \in { <<"process">>, <<"omitted", "process">>,
                                   <<"uncertain", "process">>, <<"association">>,
                                   <<"dissociation">> }
    THEN Some("horizontal")
    ELSE None

render_glyph_body(c, t, glyph, children, show) ==
    With([bbox \in {glyph.bbox[1]},
          class_name \in {glyph.class_name},
          orientation \in {glyph_orientation(glyph)} |->
    With([c1 \in {draw_glyph_shape(c, t, glyph, children, show /\ glyph.has_clone)} |->
    With([c2 \in {IF orientation # None
                  THEN draw_orientation_marker(c1, t, bbox, orientation[1],
                                               port_connector_len_px_for_class(class_name))
                  ELSE c1} |->
        IF strip_suffix_multimer(class_name) = <<"complex">> \/ class_name = <<"compartment">>
        THEN draw_text_bottom_centered(c2, bbox_pixel_rect(t, bbox),
                                       glyph_label(glyph), glyph_font_px(class_name))
        ELSE c2 ]) ]) ])

\* One iteration of the loop over aux_glyphs, for a glyph with a bounding box.
render_aux_glyph(c, t, glyph, show) ==
    With([bbox \in {glyph.bbox[1]},
          class_name \in {glyph.class_name},
          label \in {IF glyph.class_name = <<"state", "variable">> /\ IsBlank(glyph.label)
                     THEN state_var_label(glyph.state_value, glyph.state_variable)
                     ELSE glyph.label},
          font_px \in {glyph_font_px(glyph.class_name)},
          has_clone \in {show /\ glyph.has_clone} |->
        CASE class_name = <<"unit", "of", "information">> ->
               draw_round_rect_bbox(c, t, bbox, label, font_px, has_clone)
          [] class_name = <<"state", "variable">> ->
               draw_stadium_bbox(c, t, bbox, label, font_px, has_clone)
          [] OTHER -> c ])

----------------------------------------------------------------------------
(* Arcs.                                                                   *)
triangle_points(end, prev, size) ==
    With([dx \in {RSub(end.x, prev.x)}, dy \in {RSub(end.y, prev.y)} |->
    With([length \in {RSqrt(RAdd(RMul(dx, dx), RMul(dy, dy)))} |->
        IF length = R(0) THEN None
        ELSE With([ux \in {RDiv(dx, length)}, uy \in {RDiv(dy, length)},
                   half_width \in {RMul(size, Rat(6, 10))} |->
             With([base_x \in {RSub(end.x, RMul(ux, size))},
                   base_y \in {RSub(end.y, RMul(uy, size))},
                   perp_x \in {RNeg(uy)}, perp_y \in {ux} |->
                 Some(<< [ x |-> RAdd(base_x, RMul(perp_x, half_width)),
                           y |-> RAdd(base_y, RMul(perp_y, half_width)) ],
                         [ x |-> RSub(base_x, RMul(perp_x, half_width)),
                           y |-> RSub(base_y, RMul(perp_y, half_width)) ],
                         end >>) ]) ]) ]) ])

\* move_to p1, line_to p2, line_to tip, close_path.
triangle_path(c, tri) ==
    close_path(line_to(line_to(move_to(c, tri[1].x, tri[1].y), tri[2].x, tri[2].y),
                       tri[3].x, tri[3].y))

draw_open_triangle(c, end, prev, size) ==
    With([tri \in {triangle_points(end, prev, size)} |->
        IF tri = None THEN Ret(c, "draw_open_triangle")
        ELSE Ret(stroke(triangle_path(c, tri[1])), "draw_open_triangle") ])

draw_open_triangle_opaque(c, end, prev, size) ==
    With([tri \in {triangle_points(end, prev, size)} |->
        IF tri = None THEN Ret(c, "draw_open_triangle_opaque")
        ELSE With([c1 \in {fill_preserve(set_source_rgb(triangle_path(c, tri[1]),
                                                         WHITE))} |->
                 Ret(stroke(set_source_rgb(c1, BORDER_COLOR)),
                     "draw_open_triangle_opaque") ]) ])

\* draw_filled_triangle with stroke in place of fill.
draw_filled_triangle_stroked(c, end, prev, size) ==
    With([tri \in {triangle_points(end, prev, size)} |->
        IF tri = None THEN Ret(c, "draw_filled_triangle")
        ELSE Ret(stroke(triangle_path(c, tri[1])), "draw_filled_triangle") ])

draw_filled_triangle(c, end, prev, size) ==
    With([tri \in {triangle_points(end, prev, size)} |->
        IF tri = None THEN Ret(c, "draw_filled_triangle")
        ELSE Ret(fill(triangle_path(c, tri[1])), "draw_filled_triangle") ])

draw_inhibition_bar(c, end, prev, length, offset) ==
    With([dx \in {RSub(end.x, prev.x)}, dy \in {RSub(end.y, prev.y)} |->
    With([seg_len \in {RSqrt(RAdd(RMul(dx, dx), RMul(dy, dy)))} |->
        IF seg_len = R(0) THEN Ret(c, "draw_inhibition_bar")
        ELSE With([ux \in {RDiv(dx, seg_len)}, uy \in {RDiv(dy, seg_len)},
                   half_len \in {RDiv(length, R(2))} |->
             With([center_x \in {RSub(end.x, RMul(ux, offset))},
                   center_y \in {RSub(end.y, RMul(uy, offset))},
                   perp_x \in {RNeg(uy)}, perp_y \in {ux} |->
                 Ret(stroke(line_to(move_to(c, RSub(center_x, RMul(perp_x, half_len)),
                                               RSub(center_y, RMul(perp_y, half_len))),
                                    RAdd(center_x, RMul(perp_x, half_len)),
                                    RAdd(center_y, RMul(perp_y, half_len)))),
                     "draw_inhibition_bar") ]) ]) ]) ])

draw_open_circle(c, center, radius) ==
    Ret(stroke(arc(c, center.x, center.y, RMax(radius, R(1)), 0, 4)), "draw_open_circle")

draw_filled_circle(c, center, radius) ==
    With([c1 \in {arc(c, center.x, center.y, RMax(radius, R(1)), 0, 4)} |->
    With([c2 \in {fill_preserve(set_source_rgb(c1, WHITE))} |->
        Ret(stroke(set_source_rgb(c2, BORDER_COLOR)), "draw_filled_circle") ]) ])

\* The centre of the catalysis circle on a segment of length len > 0.
tangent_center(end, dx, dy, len, radius) ==
    With([ux \in {RDiv(dx, len)}, uy \in {RDiv(dy, len)},
          overlap \in {RMax(RMul(radius, CATALYSIS_OVERLAP_RATIO), R(0))} |->
    With([offset \in {RMax(RSub(radius, overlap), R(0))} |->
        [x |-> RSub(end.x, RMul(ux, offset)), y |-> RSub(end.y, RMul(uy, offset))] ]) ])

\* draw_filled_circle_tangent that draws nothing for a segment of length 0.
draw_filled_circle_tangent_skipping(c, end, prev, radius) ==
    With([dx \in {RSub(end.x, prev.x)}, dy \in {RSub(end.y, prev.y)} |->
    With([len \in {RSqrt(RAdd(RMul(dx, dx), RMul(dy, dy)))} |->
        IF len = R(0) THEN c
        ELSE draw_filled_circle(c, tangent_center(end, dx, dy, len, radius), radius) ]) ])

draw_filled_circle_tangent(c, end, prev, radius) ==
    With([dx \in {RSub(end.x, prev.x)}, dy \in {RSub(end.y, prev.y)} |->
    With([len \in {RSqrt(RAdd(RMul(dx, dx), RMul(dy, dy)))} |->
        IF len = R(0) THEN draw_filled_circle(c, end, radius)
        ELSE draw_filled_circle(c, tangent_center(end, dx, dy, len, radius), radius) ]) ])

\* for pair in points.windows(2): move_to, line_to, stroke.
RECURSIVE stroke_segments(_, _)
stroke_segments(c, points) ==
    IF Len(points) < 2 THEN c
    ELSE stroke_segments(
             stroke(line_to(move_to(c, points[1].x, points[1].y), points[2].x, points[2].y)),
             Tail(points))

\* The match on class_name of draw_arc.
draw_arc_decoration(c, end, prev, class_name, arrow_size, bar_length, bar_offset) ==
    CASE class_name \in {<<"assignment">>, <<"unknown", "influence">>} ->
           draw_open_triangle(c, end, prev, arrow_size)
      [] class_name \in {<<"positive", "influence">>, <<"stimulation">>} ->
           draw_open_triangle_opaque(c, end, prev, arrow_size)
      [] class_name = <<"production">> -> draw_filled_triangle(c, end, prev, arrow_size)
      [] class_name \in {<<"negative", "influence">>, <<"inhibition">>} ->
           draw_inhibition_bar(c, end, prev, bar_length, R(0))
      [] class_name = <<"absolute", "inhibition">> ->
           draw_inhibition_bar(draw_inhibition_bar(c, end, prev, bar_length, R(0)),
                               end, prev, bar_length, bar_offset)
      [] class_name = <<"necessary", "stimulation">> ->
           draw_open_triangle_opaque(draw_inhibition_bar(c, end, prev, bar_length, bar_offset),
                                     end, prev, arrow_size)
      [] class_name = <<"catalysis">> ->
           draw_filled_circle_tangent(c, end, prev, RMul(arrow_size, Rat(4, 10)))
      [] class_name = <<"equivalence", "arc">> ->
           draw_open_circle(c, end, RMul(arrow_size, Rat(4, 10)))
      [] OTHER -> c

\* draw_arc that takes the direction of the decoration from the first point.
draw_arc_from_start(c, points, class_name, arrow_size, bar_length, bar_offset) ==
    IF Len(points) < 2 THEN Ret(c, "draw_arc")
    ELSE With([c1 \in {set_line_width(set_source_rgb(c, BORDER_COLOR),
                                      DEFAULT_LINE_WIDTH)} |->
         With([c2 \in {stroke_segments(c1, points)} |->
             Ret(draw_arc_decoration(c2, points[Len(points)], points[1],
                                     class_name, arrow_size, bar_length, bar_offset),
                 "draw_arc") ]) ])

draw_arc(c, points, class_name, arrow_size, bar_length, bar_offset) ==
    IF Len(points) < 2 THEN Ret(c, "draw_arc")
    ELSE With([c1 \in {set_line_width(set_source_rgb(c, BORDER_COLOR),
                                      DEFAULT_LINE_WIDTH)} |->
         With([c2 \in {stroke_segments(c1, points)} |->
             Ret(draw_arc_decoration(c2, points[Len(points)], points[Len(points) - 1],
                                     class_name, arrow_size, bar_length, bar_offset),
                 "draw_arc") ]) ])

\* One iteration of the loop over arcs in render_sbgnml.
render_arc(c, t, a) ==
    draw_arc(c, [i \in 1..Len(a.points) |-> map_point(t, a.points[i].x, a.points[i].y)],
             a.class_name,
             scale_scalar(t, RMul(ARROW_SIZE, ARROW_SCALE)),
             scale_scalar(t, RMul(BAR_LENGTH, ARROW_SCALE)),
             scale_scalar(t, RMul(BAR_OFFSET, ARROW_SCALE)))

----------------------------------------------------------------------------
(* Input documents.                                                        *)
NumAttr(n) == Some([ok |-> TRUE, val |-> R(n)])
BadAttr == Some([ok |-> FALSE, val |-> R(0)])

BBoxEl(x, y, w, h) == Some([x |-> NumAttr(x), y |-> NumAttr(y), w |-> NumAttr(w), h |-> NumAttr(h)])
PointEl(x, y) == [x |-> NumAttr(x), y |-> NumAttr(y)]

GlyphEl(id, class, bbox, label, kids) ==
    [ id |-> id, class |-> Some(class), orientation |-> None, label |-> label,
      bbox |-> bbox, ports |-> <<>>, clone |-> FALSE, state |-> None, glyphs |-> kids ]

\* An arc through the given points: start, next ..., end.
ArcEl(class, points) ==
    [ class |-> Some(class),
      start |-> Some(points[1]),
      end |-> Some(points[Len(points)]),
      nexts |-> SubSeq(points, 2, Len(points) - 1) ]

Document(gs, as) == [well_formed |-> TRUE, has_map |-> TRUE, glyphs |-> gs, arcs |-> as]

Input(d, show) ==
    [ doc |-> d, padding |-> DEFAULT_PADDING_PX, show_clone_markers |-> show,
      font |-> [advance |-> Rat(1, 2), line_height |-> Rat(23, 20)] ]

MainBox == BBoxEl(0, 0, 96, 48)
TallBox == BBoxEl(5, 5, 30, 60)
SmallBox == BBoxEl(40, 2, 20, 10)
UnitOfInformation == <<"unit", "of", "information">>
StateVariable == <<"state", "variable">>
PlainArc == ArcEl(<<"consumption">>, <<PointEl(0, 0), PointEl(30, 0)>>)

(* Structure: every forest of at most MaxNodes glyph elements, each one of  *)
(* StructNodes, and one arc. The ids are missing or "a", so they repeat.   *)
MaxNodes == 3
StructNodes ==
    { [id |-> None, class |-> <<"macromolecule">>, bbox |-> MainBox],
      [id |-> Some("a"), class |-> <<"macromolecule">>, bbox |-> MainBox],
      [id |-> Some("a"), class |-> <<"macromolecule">>, bbox |-> None],
      [id |-> Some("a"), class |-> UnitOfInformation, bbox |-> SmallBox] }

RECURSIVE Trees(_)
RECURSIVE Forests(_)
Trees(n) ==
    IF n = 0 THEN {}
    ELSE { GlyphEl(nd.id, nd.class, nd.bbox, Some(<<"L">>), kids) :
               nd \in StructNodes, kids \in Forests(n - 1) }

Forests(n) ==
    IF n = 0 THEN {<<>>}
    ELSE UNION { { <<tree>> \o rest : tree \in Trees(k), rest \in Forests(n - k) } :
                   k \in 1..n }

StructureInputs ==
    { Input(Document(f, <<PlainArc>>), TRUE) : f \in UNION {Forests(n) : n \in 1..MaxNodes} }

(* Style: one glyph of every class, with every label, clone flag and       *)
(* --clone-markers value; and one glyph of every class and orientation.    *)
EntityPoolClasses ==
    { <<"simple", "chemical">>, <<"unspecified", "entity">>, <<"macromolecule">>,
      <<"nucleic", "acid", "feature">>, <<"complex">>, <<"perturbing", "agent">> }

Multimer(class) == class \o <<"multimer">>

AllClasses ==
    EntityPoolClasses \cup {Multimer(class) : class \in EntityPoolClasses}
    \cup { <<"phenotype">>, <<"outcome">>, <<"source", "and", "sink">>, <<"compartment">>,
           <<"tag">>, <<"association">>, <<"dissociation">>, <<"process">>,
           <<"omitted", "process">>, <<"uncertain", "process">>, UnitOfInformation,
           StateVariable, <<"and">>, <<"or">>, <<"not">>,
           <<"tag", "multimer">>, <<"terminal">>, <<"multimer">>, <<"">> }

Labels == {None, Some(<<"L">>), Some(<<" ", "\r">>)}

StyleInputs ==
    { Input(Document(<<[GlyphEl(Some("g"), class, MainBox, label, <<>>)
                           EXCEPT !.clone = clone]>>, <<>>), show) :
          class \in AllClasses, label \in Labels, clone \in BOOLEAN, show \in BOOLEAN }

Orientations == {"horizontal", "vertical", "left", "right", "up", "down", "diagonal"}

OrientationInputs ==
    { Input(Document(<<[GlyphEl(Some("g"), class, TallBox, Some(<<"L">>), <<>>)
                           EXCEPT !.orientation = Some(o)]>>, <<>>), TRUE) :
          class \in AllClasses, o \in Orientations }

(* Overlays: an entity pool glyph with at most one unit-of-information     *)
(* child and at most one state-variable child.                             *)
UnitChildren ==
    { <<>>,
      <<GlyphEl(Some("u"), UnitOfInformation, None, None, <<>>)>>,
      <<GlyphEl(Some("u"), UnitOfInformation, None, Some(<<"m", "t">>), <<>>)>>,
      <<GlyphEl(Some("u"), UnitOfInformation, SmallBox, Some(<<"m", "t">>), <<>>)>> }

StateEl(value, variable) == Some([value |-> value, variable |-> variable])

StateChildren ==
    { <<>>,
      <<GlyphEl(Some("s"), StateVariable, None, None, <<>>)>>,
      <<[GlyphEl(Some("s"), StateVariable, None, None, <<>>)
            EXCEPT !.state = StateEl(Some(<<"P">>), Some(<<"S", "1">>))]>>,
      <<GlyphEl(Some("s"), StateVariable, None, Some(<<"x">>), <<>>)>>,
      <<[GlyphEl(Some("s"), StateVariable, SmallBox, None, <<>>)
            EXCEPT !.state = StateEl(Some(<<"P">>), None), !.clone = TRUE]>> }

OverlayInputs ==
    { Input(Document(<<GlyphEl(Some("g"), class, box, Some(<<"L">>), u \o sv)>>, <<>>), TRUE) :
          class \in EntityPoolClasses \cup {Multimer(cl) : cl \in EntityPoolClasses},
          box \in {MainBox, TallBox}, u \in UnitChildren, sv \in StateChildren }

(* Siblings: an entity pool glyph with two children of the same auxiliary  *)
(* class, the first with a bounding box or with a blank label.             *)
AuxChild(class, box, label) == GlyphEl(Some("k"), class, box, label, <<>>)

SiblingPairs ==
    { <<AuxChild(class, first.box, first.label), AuxChild(class, None, Some(<<"m", "t">>))>> :
          class \in {UnitOfInformation, StateVariable},
          first \in { [box |-> SmallBox, label |-> Some(<<"a">>)],
                      [box |-> None, label |-> Some(<<" ">>)],
                      [box |-> None, label |-> None],
                      [box |-> None, label |-> Some(<<"a">>)] } }
    \cup { <<AuxChild(class, None, Some(<<"m", "t">>)), AuxChild(class, SmallBox, Some(<<"a">>))>> :
               class \in {UnitOfInformation, StateVariable} }

SiblingInputs ==
    { Input(Document(<<GlyphEl(Some("g"), class, MainBox, Some(<<"L">>), kids)>>, <<>>), TRUE) :
          class \in EntityPoolClasses, kids \in SiblingPairs }

(* State variables: one with every combination of label, state value and   *)
(* state variable, missing, empty or given, as the child of a macromolecule *)
(* with and without a bounding box of its own, and as a root glyph.        *)
StateTexts(text) == {None, Some(<<>>), Some(text)}

StateGlyphs(box) ==
    { [GlyphEl(Some("s"), StateVariable, box, label, <<>>)
          EXCEPT !.state = StateEl(value, variable)] :
          label \in {None, Some(<<" ">>), Some(<<"x", " ">>)},
          value \in StateTexts(<<"P">>), variable \in StateTexts(<<"S", "1">>) }

StateInputs ==
    { Input(Document(<<GlyphEl(Some("g"), <<"macromolecule">>, MainBox, Some(<<"L">>), <<sv>>)>>,
                     <<>>), TRUE) :
          sv \in StateGlyphs(None) \cup StateGlyphs(SmallBox) }
    \cup { Input(Document(<<sv>>, <<>>), TRUE) : sv \in StateGlyphs(SmallBox) }

(* Arcs: one arc of every class along every point list, whose final        *)
(* segments have whole lengths (or length 0); and two arcs.                *)
ArcClasses ==
    { <<"assignment">>, <<"unknown", "influence">>, <<"positive", "influence">>,
      <<"stimulation">>, <<"production">>, <<"negative", "influence">>, <<"inhibition">>,
      <<"absolute", "inhibition">>, <<"necessary", "stimulation">>, <<"catalysis">>,
      <<"equivalence", "arc">>, <<"consumption">>, <<"logic", "arc">>, <<"">> }

PointLists ==
    { <<PointEl(0, 0), PointEl(30, 0)>>,
      <<PointEl(0, 0), PointEl(0, 40)>>,
      <<PointEl(30, 40), PointEl(0, 0)>>,
      <<PointEl(5, 5), PointEl(5, 5)>>,
      <<PointEl(0, 0), PointEl(20, 0), PointEl(20, 0)>>,
      <<PointEl(0, 0), PointEl(20, 0), PointEl(20, 15)>> }

ArcInputs ==
    { Input(Document(<<GlyphEl(Some("g"), <<"macromolecule">>, MainBox, None, <<>>)>>,
                     <<ArcEl(class, points)>>), TRUE) :
          class \in ArcClasses, points \in PointLists }
    \cup
    { Input(Document(<<GlyphEl(Some("g"), <<"process">>, MainBox, None, <<>>)>>,
                     <<ArcEl(c1, <<PointEl(0, 0), PointEl(30, 0)>>),
                       ArcEl(c2, <<PointEl(30, 0), PointEl(30, 0)>>)>>), TRUE) :
          c1 \in {<<"production">>, <<"catalysis">>},
          c2 \in {<<"catalysis">>, <<"inhibition">>} }

(* Malformed and sparse documents: a glyph whose bounding box or port has  *)
(* a missing or unparseable attribute, beside a sound glyph or alone; an   *)
(* arc without start or end, or with a missing or unparseable coordinate;  *)
(* no map element; XML that is not well formed.                            *)
AttrTexts == {None, BadAttr}

BadBoxes ==
    { [MainBox[1] EXCEPT ![f] = a] : f \in {"x", "y", "w", "h"}, a \in AttrTexts }

BadPoints == { [PointEl(3, 4) EXCEPT ![f] = a] : f \in {"x", "y"}, a \in AttrTexts }

SparseGlyphs ==
    { GlyphEl(Some("b"), <<"macromolecule">>, Some(box), Some(<<"L">>), <<>>) :
          box \in BadBoxes }
    \cup { [GlyphEl(Some("b"), <<"macromolecule">>, None, Some(<<"L">>), <<>>)
               EXCEPT !.ports = ports] :
               ports \in { <<pt>> : pt \in BadPoints }
                         \cup {<<>>, <<PointEl(3, 4)>>, <<PointEl(3, 4), PointEl(120, 60)>>} }

SoundGlyph == GlyphEl(Some("g"), <<"macromolecule">>, MainBox, None, <<>>)

BadArcs ==
    { [PlainArc EXCEPT !.start = None], [PlainArc EXCEPT !.end = None] }
    \cup { [PlainArc EXCEPT !.start = Some(pt)] : pt \in BadPoints }
    \cup { [PlainArc EXCEPT !.end = Some(pt)] : pt \in BadPoints }

WaypointArcs ==
    { [PlainArc EXCEPT !.nexts = <<pt>>] : pt \in BadPoints }
    \cup { [PlainArc EXCEPT !.nexts = <<PointEl(3, 4), pt, PointEl(7, 0)>>] : pt \in BadPoints }

SparseInputs ==
    { Input(Document(gs, <<a>>), TRUE) :
          gs \in { <<g>> : g \in SparseGlyphs } \cup { <<SoundGlyph, g>> : g \in SparseGlyphs },
          a \in {PlainArc} }
    \cup { Input(Document(gs, as), TRUE) :
               gs \in {<<SoundGlyph>>, <<>>},
               as \in { <<a>> : a \in BadArcs \cup WaypointArcs }
                      \cup { <<PlainArc, a>> : a \in BadArcs } \cup {<<>>} }
    \cup { Input([Document(<<SoundGlyph>>, as) EXCEPT !.has_map = FALSE], TRUE) :
               as \in { <<PlainArc>>, <<[PlainArc EXCEPT !.start = None]>> } }
    \cup { Input([Document(<<SoundGlyph>>, <<PlainArc>>) EXCEPT !.well_formed = FALSE], TRUE) }

(* Placement: one macromolecule whose box has every sign and no extent,    *)
(* alone or beside a glyph that has a port only and so widens the bounds,  *)
(* under the paddings of Paddings.                                         *)
RatAttr(q) == Some([ok |-> TRUE, val |-> q])
BBoxAt(x, y, w, h) == Some([x |-> RatAttr(x), y |-> RatAttr(y), w |-> RatAttr(w), h |-> RatAttr(h)])
Padded(input, pad) == [input EXCEPT !.padding = pad]
Paddings == {R(0), Rat(1, 2), DEFAULT_PADDING_PX, R(-10)}
PlacementBoxes ==
    { BBoxAt(x, y, w, h) : x \in {R(0), R(-7), Rat(5, 2)}, y \in {R(0), R(3)},
                           w \in {R(96), R(0), Rat(1, 2), R(-20)},
                           h \in {R(48), R(0), R(-20)} }
PortOnly == [GlyphEl(Some("p"), <<"process">>, None, None, <<>>) EXCEPT !.ports = <<PointEl(-30, 100)>>]
PlacementInputs ==
    { Padded(Input(Document(<<GlyphEl(Some("g"), <<"macromolecule">>, box, Some(<<"L">>), <<>>)>>
                            \o rest, <<>>), TRUE), pad) :
          box \in PlacementBoxes, rest \in {<<>>, <<PortOnly>>}, pad \in Paddings }

(* Signs: a glyph of every class on a box whose width, height or both are *)
(* negative.                                                               *)
SignedBoxes == {BBoxEl(60, 10, -40, 30), BBoxEl(10, 50, 40, -30), BBoxEl(60, 50, -40, -30)}
SignedInputs ==
    { Input(Document(<<GlyphEl(Some("g"), class, box, Some(<<"L">>), <<>>)>>, <<>>), TRUE) :
          class \in AllClasses, box \in SignedBoxes }

(* Anchoring: a glyph at (10, 10), so that under the default padding pixel *)
(* coordinates are data coordinates, and one arc along an axis in each of  *)
(* the four directions, straight or after a waypoint off the axis.         *)
AnchorLists ==
    { <<PointEl(0, 0), PointEl(100, 0)>>, <<PointEl(100, 0), PointEl(0, 0)>>,
      <<PointEl(0, 0), PointEl(0, 100)>>, <<PointEl(0, 100), PointEl(0, 0)>>,
      <<PointEl(40, 30), PointEl(0, 0), PointEl(100, 0)>>,
      <<PointEl(40, 30), PointEl(7, 9), PointEl(0, 100), PointEl(0, 0)>> }
AnchorInputs ==
    { Input(Document(<<GlyphEl(Some("g"), <<"process">>, BBoxEl(10, 10, 96, 48), None, <<>>)>>,
                     <<ArcEl(class, points)>>), TRUE) :
          class \in {<<"necessary", "stimulation">>, <<"stimulation">>, <<"production">>,
                     <<"absolute", "inhibition">>},
          points \in AnchorLists }

(* Depth: ports on a child and on a grandchild without bounding box, left *)
(* of, right of and inside the box of the root, and an arc far outside.    *)
FarArc == ArcEl(<<"consumption">>, <<PointEl(-100, -100), PointEl(300, 300)>>)
DeepPorts == {PointEl(-30, 100), PointEl(200, -5), PointEl(50, 20)}
Ported(glyph, pt) == [glyph EXCEPT !.ports = <<pt>>]
DeepInputs ==
    { Input(Document(<<GlyphEl(Some("g"), <<"macromolecule">>, MainBox, Some(<<"L">>),
          <<Ported(GlyphEl(Some("c"), <<"macromolecule">>, box, None,
              <<Ported(GlyphEl(Some("d"), <<"macromolecule">>, None, None, <<>>), p2)>>),
                   p1)>>)>>, <<FarArc>>), TRUE) :
          box \in {None, SmallBox}, p1 \in DeepPorts, p2 \in DeepPorts }

(* Order: glyphs with ids of their own. A root with a nested child, a unit *)
(* of information that holds a glyph, and a second child that holds one; a *)
(* second root; and a state variable at the top that holds a glyph. Each   *)
(* of the inner glyphs with or without bounding box.                       *)
Leaf(id, box) == GlyphEl(Some(id), <<"macromolecule">>, box, Some(<<"L">>), <<>>)
OrderInputs ==
    { Input(Document(
          << GlyphEl(Some("r"), <<"complex">>, rbox, Some(<<"L">>),
                     << GlyphEl(Some("k"), <<"complex">>, kbox, None, <<Leaf("m", SmallBox)>>),
                        GlyphEl(Some("u"), UnitOfInformation, ubox, Some(<<"t">>),
                                <<Leaf("q", SmallBox)>>),
                        GlyphEl(Some("n"), <<"macromolecule">>, nbox, None,
                                <<Leaf("z", SmallBox)>>) >>),
             Leaf("s", TallBox),
             GlyphEl(Some("w"), StateVariable, SmallBox, Some(<<"t">>), <<Leaf("y", TallBox)>>) >>,
          <<PlainArc>>), TRUE) :
          rbox \in {MainBox, None}, kbox \in {TallBox, None}, ubox \in {SmallBox, None},
          nbox \in {TallBox, None} }

Inputs ==
    StructureInputs \cup StyleInputs \cup OrientationInputs \cup OverlayInputs
    \cup SiblingInputs \cup StateInputs \cup PlacementInputs \cup SignedInputs
    \cup AnchorInputs \cup DeepInputs \cup OrderInputs
    \cup ArcInputs
    \cup SparseInputs

----------------------------------------------------------------------------
(* draw_sbgnml as a state machine. One step is the parse, the creation of  *)
(* a surface, one call of render_glyph_tree up to its first nested call,   *)
(* one iteration of the loop over aux_glyphs or over arcs, or the writing  *)
(* of an output file.                                                      *)
setup_context(c) ==
    With([c1 \in {paint(set_source_rgb(c, WHITE))} |->
    With([c2 \in {set_source_rgb(c1, BORDER_COLOR)} |->
    With([c3 \in {set_line_width(c2, DEFAULT_LINE_WIDTH)} |->
        set_line_cap(c3, "Square") ]) ]) ])

Indices(gs) == [j \in 1..Len(gs) |-> j]

\* child_map.get(id), as positions in glyphs: empty when the map has no entry.
child_map_get(gs, id) == SelectSeq(Indices(gs), LAMBDA j : gs[j].parent_id = Some(id))

\* aux_glyphs that takes the glyphs at the top as well.
aux_glyphs_of_any_depth(gs) == SelectSeq(Indices(gs), LAMBDA j : IsAuxClass(gs[j].class_name))

\* aux_glyphs, as positions in glyphs.
aux_glyphs(gs) ==
    SelectSeq(Indices(gs), LAMBDA j : gs[j].parent_id # None /\ IsAuxClass(gs[j].class_name))

\* The glyphs the first loop of render_sbgnml visits, as positions in glyphs.
root_glyphs(gs) == SelectSeq(Indices(gs), LAMBDA j : gs[j].parent_id = None)

GlyphsAt(gs, list) == [k \in 1..Len(list) |-> gs[list[k]]]

(* The call stack: the loop of render_sbgnml over the roots at the bottom, *)
(* above it the loop over children of every render_glyph_tree call that    *)
(* is running; i is the position of the loop in its list. A stack deeper   *)
(* than StackLimit holds some glyph twice, and the calls between its two   *)
(* frames repeat without end: the process then dies of stack exhaustion.   *)
StackLimit == MaxNodes + 2

Advance(st) == [st EXCEPT ![Len(st)].i = @ + 1]

\* resume without the continue for units of information and state variables.
RECURSIVE resume_all(_, _)
resume_all(gs, st) ==
    IF st = <<>> THEN <<>>
    ELSE LET f == st[Len(st)]
         IN  IF f.i > Len(f.list)
             THEN IF Len(st) = 1 THEN <<>>
                  ELSE resume_all(gs, Advance(SubSeq(st, 1, Len(st) - 1)))
             ELSE st

\* Runs the loops on the stack up to the next call of render_glyph_tree:
\* a loop at its end returns to its caller, and the loop over children
\* passes over units of information and state variables.
RECURSIVE resume(_, _)
resume(gs, st) ==
    IF st = <<>> THEN <<>>
    ELSE LET f == st[Len(st)]
         IN  IF f.i > Len(f.list)
             THEN IF Len(st) = 1 THEN <<>>
                  ELSE resume(gs, Advance(SubSeq(st, 1, Len(st) - 1)))
             ELSE IF ~f.root /\ IsAuxClass(gs[f.list[f.i]].class_name)
             THEN resume(gs, Advance(st))
             ELSE st

\* The state in which render_sbgnml starts on a fresh context.
begin_render(gs) == resume(gs, <<[list |-> root_glyphs(gs), i |-> 1, root |-> TRUE]>>)

Rendering == pc \in {"render_png", "render_svg"}
NextGlyph == LET f == stack[Len(stack)] IN f.list[f.i]
Drawn(kind, i, before, after) ==
    [k |-> kind, i |-> i, lo |-> Len(before.ops) + 1, hi |-> Len(after.ops)]

Init ==
    /\ \E input \in Inputs :
          /\ doc = input.doc
          /\ padding = input.padding
          /\ show_clone_markers = input.show_clone_markers
          /\ font = input.font
    /\ pc = "start"
    /\ result = None
    /\ glyphs = <<>>
    /\ arcs = <<>>
    /\ transform = None
    /\ canvas = None
    /\ surfaces = <<>>
    /\ files = <<>>
    /\ ctx = None
    /\ stack = <<>>
    /\ aux_i = 1
    /\ arc_i = 1
    /\ trace = <<>>

\* Document::parse(&xml) fails.
DocumentParseFails ==
    /\ pc = "start"
    /\ ~doc.well_formed
    /\ result' = Some(Err("Failed to parse SBGN XML"))
    /\ pc' = "done"
    /\ UNCHANGED <<doc, padding, show_clone_markers, font, glyphs, arcs, transform,
                   canvas, surfaces, files, ctx, stack, aux_i, arc_i, trace>>

\* parse_sbgn(&doc)? and transform_with_padding.
ParseSbgn ==
    /\ pc = "start"
    /\ doc.well_formed
    /\ \E parsed \in {parse_sbgn(doc)} :
           IF parsed.ok
           THEN \E fit \in {transform_with_padding(parsed.val.bounds, padding)} :
                    /\ glyphs' = parsed.val.glyphs
                    /\ arcs' = parsed.val.arcs
                    /\ transform' = Some(fit.transform)
                    /\ canvas' = Some([width |-> fit.width, height |-> fit.height])
                    /\ pc' = "parsed"
                    /\ UNCHANGED result
           ELSE /\ result' = Some(parsed)
                /\ pc' = "done"
                /\ UNCHANGED <<glyphs, arcs, transform, canvas>>
    /\ UNCHANGED <<doc, padding, show_clone_markers, font, surfaces, files, ctx,
                   stack, aux_i, arc_i, trace>>

\* create_png_surface, and render_sbgnml up to its first call.
CreatePngSurface ==
    /\ pc = "parsed"
    /\ surfaces' = Append(surfaces, [ kind |-> "png",
                                      width |-> R(RCeil(canvas[1].width)),
                                      height |-> R(RCeil(canvas[1].height)) ])
    /\ ctx' = Some(setup_context(CairoContext_new))
    /\ stack' = begin_render(glyphs)
    /\ aux_i' = 1
    /\ arc_i' = 1
    /\ trace' = <<>>
    /\ pc' = "render_png"
    /\ UNCHANGED <<doc, padding, show_clone_markers, font, result, glyphs, arcs,
                   transform, canvas, files>>

\* One call of render_glyph_tree: it returns at once for a glyph without a
\* bounding box, and else draws the glyph and enters the loop over its children.
RenderGlyphTree ==
    /\ Rendering
    /\ stack # <<>>
    /\ \E glyph \in {glyphs[NextGlyph]} :
       \E children \in {child_map_get(glyphs, glyph.id)} :
           IF glyph.bbox = None
           THEN /\ stack' = resume(glyphs, Advance(stack))
                /\ UNCHANGED <<ctx, trace>>
           ELSE /\ Len(stack) < StackLimit
                /\ \E after \in {render_glyph_body(ctx[1], transform[1], glyph,
                                                    GlyphsAt(glyphs, children),
                                                    show_clone_markers)} :
                       /\ ctx' = Some(after)
                       /\ trace' = Append(trace, Drawn("glyph", NextGlyph, ctx[1], after))
                /\ stack' = resume(glyphs, Append(stack, [list |-> children, i |-> 1,
                                                          root |-> FALSE]))
    /\ UNCHANGED <<doc, padding, show_clone_markers, font, pc, result, glyphs, arcs,
                   transform, canvas, surfaces, files, aux_i, arc_i>>

\* The recursion has run into a glyph that is its own descendant in child_map.
StackOverflow ==
    /\ Rendering
    /\ stack # <<>>
    /\ glyphs[NextGlyph].bbox # None
    /\ Len(stack) >= StackLimit
    /\ pc' = "aborted"
    /\ UNCHANGED <<doc, padding, show_clone_markers, font, result, glyphs, arcs,
                   transform, canvas, surfaces, files, ctx, stack, aux_i, arc_i, trace>>

\* One iteration of the loop over aux_glyphs.
RenderAuxGlyph ==
    /\ Rendering
    /\ stack = <<>>
    /\ aux_i <= Len(aux_glyphs(glyphs))
    /\ \E g \in {aux_glyphs(glyphs)[aux_i]} :
           IF glyphs[g].bbox = None
           THEN UNCHANGED <<ctx, trace>>
           ELSE \E after \in {render_aux_glyph(ctx[1], transform[1], glyphs[g],
                                                show_clone_markers)} :
                    /\ ctx' = Some(after)
                    /\ trace' = Append(trace, Drawn("aux", g, ctx[1], after))
    /\ aux_i' = aux_i + 1
    /\ UNCHANGED <<doc, padding, show_clone_markers, font, pc, result, glyphs, arcs,
                   transform, canvas, surfaces, files, stack, arc_i>>

\* One iteration of the loop over arcs.
RenderArc ==
    /\ Rendering
    /\ stack = <<>>
    /\ aux_i > Len(aux_glyphs(glyphs))
    /\ arc_i <= Len(arcs)
    /\ \E after \in {render_arc(ctx[1], transform[1], arcs[arc_i])} :
           /\ ctx' = Some(after)
           /\ trace' = Append(trace, Drawn("arc", arc_i, ctx[1], after))
    /\ arc_i' = arc_i + 1
    /\ UNCHANGED <<doc, padding, show_clone_markers, font, pc, result, glyphs, arcs,
                   transform, canvas, surfaces, files, stack, aux_i>>

\* render_sbgnml has run through its three loops.
PassDone == stack = <<>> /\ aux_i > Len(aux_glyphs(glyphs)) /\ arc_i > Len(arcs)

\* fs::File::create(output) and surface.write_to_png.
WritePng ==
    /\ pc = "render_png"
    /\ PassDone
    /\ files' = Append(files, [name |-> "png", content |-> ctx[1].ops])
    /\ pc' = "png_written"
    /\ UNCHANGED <<doc, padding, show_clone_markers, font, result, glyphs, arcs,
                   transform, canvas, surfaces, ctx, stack, aux_i, arc_i, trace>>

\* render_svg up to the first call inside its render closure.
CreateSvgSurface ==
    /\ pc = "png_written"
    /\ surfaces' = Append(surfaces, [ kind |-> "svg", width |-> canvas[1].width,
                                      height |-> canvas[1].height ])
    /\ files' = Append(files, [name |-> "svg", content |-> <<>>])
    /\ ctx' = Some(setup_context(CairoContext_new))
    /\ stack' = begin_render(glyphs)
    /\ aux_i' = 1
    /\ arc_i' = 1
    /\ trace' = <<>>
    /\ pc' = "render_svg"
    /\ UNCHANGED <<doc, padding, show_clone_markers, font, result, glyphs, arcs,
                   transform, canvas>>

\* surface.finish() and the Ok(()) of draw_sbgnml.
FinishSvg ==
    /\ pc = "render_svg"
    /\ PassDone
    /\ files' = [files EXCEPT ![Len(files)].content = ctx[1].ops]
    /\ result' = Some(Ok("unit"))
    /\ pc' = "done"
    /\ UNCHANGED <<doc, padding, show_clone_markers, font, glyphs, arcs, transform,
                   canvas, surfaces, ctx, stack, aux_i, arc_i, trace>>

Next ==
    \/ DocumentParseFails
    \/ ParseSbgn
    \/ CreatePngSurface
    \/ RenderGlyphTree
    \/ StackOverflow
    \/ RenderAuxGlyph
    \/ RenderArc
    \/ WritePng
    \/ CreateSvgSurface
    \/ FinishSvg

Spec == Init /\ [][Next]_vars

----------------------------------------------------------------------------
(* Properties.                                                             *)
OpsOf(e) == SubSeq(ctx[1].ops, e.lo, e.hi)
Entries(kind) == SelectSeq(trace, LAMBDA e : e.k = kind)
IndicesOf(entries) == [n \in 1..Len(entries) |-> entries[n].i]
IsPrefix(s, t) == Len(s) <= Len(t) /\ s = SubSeq(t, 1, Len(s))
Rank(kind) == CASE kind = "glyph" -> 1 [] kind = "aux" -> 2 [] kind = "arc" -> 3
IsAuxGlyph(g) == g.parent_id # None /\ g.class_name \in {UnitOfInformation, StateVariable}
\* The path a path function traces in rect.
PathAt(path_fn, rect) ==
    ( CASE path_fn = "path_rect" -> path_rect(CairoContext_new, rect)
        [] path_fn = "path_ellipse" -> path_ellipse(CairoContext_new, rect)
        [] path_fn = "path_hexagon" -> path_hexagon(CairoContext_new, rect)
        [] path_fn = "path_concave_hexagon" -> path_concave_hexagon(CairoContext_new, rect)
        [] path_fn = "path_barrel" -> path_barrel(CairoContext_new, rect)
        [] path_fn = "round_rect_bbox" -> round_rect_bbox_path(CairoContext_new, rect)
        [] path_fn = "tag" -> tag_path(CairoContext_new, rect)
        [] path_fn = "stadium" -> stadium_path(CairoContext_new, rect)
        [] path_fn = "macromolecule" -> macromolecule_path(CairoContext_new, rect)
        [] path_fn = "nucleic acid feature" ->
               nucleic_acid_feature_path(CairoContext_new, rect)
        [] path_fn = "complex" -> complex_path(CairoContext_new, rect) ).path
RectOf(g) == bbox_pixel_rect(transform[1], g.bbox[1])

ExpectedRoots ==
    SelectSeq(Indices(glyphs), LAMBDA j : glyphs[j].parent_id = None /\ glyphs[j].bbox # None)

ExpectedAux ==
    SelectSeq(Indices(glyphs), LAMBDA j : IsAuxGlyph(glyphs[j]) /\ glyphs[j].bbox # None)

RootEntries == SelectSeq(trace, LAMBDA e : e.k = "glyph" /\ glyphs[e.i].parent_id = None)

AuxShapeAt(e) ==
    LET g == glyphs[e.i]
        path_fn == IF g.class_name = UnitOfInformation THEN "round_rect_bbox" ELSE "stadium"
    IN  /\ e.lo <= e.hi
        /\ ctx[1].ops[e.lo].path = PathAt(path_fn, RectOf(g))

\* C1: in every render pass the draws come in the order root glyphs (in list
\* order, with their descendants), then every unit-of-information or
\* state-variable glyph that has a parent and a bounding box, once each, in
\* list order, as a rounded rectangle or stadium at its own box, whether or
\* not its parent was drawn, then the arcs in list order; no glyph is drawn
\* after an arc, and the recursion never draws an auxiliary glyph.
C1_RenderOrder ==
    ctx # None =>
        /\ \A m, n \in 1..Len(trace) : m < n => Rank(trace[m].k) <= Rank(trace[n].k)
        /\ \A m \in 1..Len(trace) : trace[m].k = "glyph" => ~IsAuxGlyph(glyphs[trace[m].i])
        /\ IsPrefix(IndicesOf(RootEntries), ExpectedRoots)
        /\ stack = <<>> => IndicesOf(RootEntries) = ExpectedRoots
        /\ IsPrefix(IndicesOf(Entries("aux")), ExpectedAux)
        /\ (stack = <<>> /\ aux_i > Len(aux_glyphs(glyphs)))
               => IndicesOf(Entries("aux")) = ExpectedAux
        /\ \A m \in 1..Len(trace) : trace[m].k = "aux" => AuxShapeAt(trace[m])
        /\ IndicesOf(Entries("arc")) = [n \in 1..(arc_i - 1) |-> n]
        /\ PassDone => arc_i - 1 = Len(arcs)

\* A finished pass that drew a root glyph, an auxiliary glyph whose parent has
\* no bounding box, and an arc.
C1_Witness ==
    /\ pc = "png_written"
    /\ Entries("glyph") # <<>>
    /\ Entries("arc") # <<>>
    /\ \E m \in 1..Len(trace) :
          /\ trace[m].k = "aux"
          /\ \A j \in 1..Len(glyphs) :
                (Some(glyphs[j].id) = glyphs[trace[m].i].parent_id /\ ~IsAuxGlyph(glyphs[j]))
                    => glyphs[j].bbox = None

\* C2: whenever a drawing function has returned, and between any two steps
\* of a render pass, the source colour is BORDER_COLOR and the line width is
\* DEFAULT_LINE_WIDTH.
C2_PaintStateRestored ==
    ctx # None =>
        /\ ctx[1].src = BORDER_COLOR
        /\ ctx[1].lw = DEFAULT_LINE_WIDTH
        /\ \A r \in ctx[1].rets : r[2] = BORDER_COLOR /\ r[3] = DEFAULT_LINE_WIDTH

\* A clone marker, an overlay line and a label have been drawn in other
\* colours and widths, and their functions have returned.
C2_Witness ==
    /\ ctx # None
    /\ {"draw_clone_marker", "draw_text_at", "draw_shape_with_clone"}
           \subseteq {r[1] : r \in ctx[1].rets}
    /\ \E n \in 1..Len(ctx[1].ops) :
          ctx[1].ops[n].src = CLONE_MARKER_FILL_COLOR
    /\ \E n \in 1..Len(ctx[1].ops) :
          ctx[1].ops[n].lw = TEXT_OUTLINE_WIDTH /\ ctx[1].ops[n].src = WHITE

\* C3: every render pass runs to completion or returns an error; the
\* recursion over child_map never runs away.
C3_EveryPassTerminates == pc # "aborted"

StructuralError(d) ==
    \/ ~d.well_formed
    \/ ~d.has_map
    \/ \E n \in 1..Len(d.arcs) :
          \/ d.arcs[n].start = None
          \/ d.arcs[n].end = None
          \/ parse_f64(d.arcs[n].start[1].x) = None
          \/ parse_f64(d.arcs[n].start[1].y) = None
          \/ parse_f64(d.arcs[n].end[1].x) = None
          \/ parse_f64(d.arcs[n].end[1].y) = None

IsError == result # None /\ ~result[1].ok

\* C4: an input without map element, or with an arc that lacks start or end
\* or has an unparseable start or end coordinate, makes draw_sbgnml return an
\* error; and whenever it returns an error, no surface has been created, no
\* drawing operation issued and no output file created.
C4_NoPartialRender ==
    /\ (pc # "start" /\ StructuralError(doc)) => (pc = "done" /\ IsError)
    /\ IsError =>
          /\ surfaces = <<>>
          /\ files = <<>>
          /\ ctx = None
          /\ trace = <<>>

\* An arc without start element has been rejected.
C4_Witness ==
    /\ result = Some(Err("Arc missing start"))
    /\ doc.has_map
    /\ surfaces = <<>>

----------------------------------------------------------------------------
(* Parsing of coordinates.                                                 *)
\* The glyph elements of a document at every depth, in document order.
RECURSIVE Flatten(_)
Flatten(nodes) ==
    IF nodes = <<>> THEN <<>>
    ELSE <<Head(nodes)>> \o Flatten(Head(nodes).glyphs) \o Flatten(Tail(nodes))

BadText(attr) == attr # None /\ ~attr[1].ok
Parses(attr) == attr # None /\ attr[1].ok
GoodPoint(pt) == Parses(pt.x) /\ Parses(pt.y)
BadPoint(pt) == BadText(pt.x) \/ BadText(pt.y)
GoodBox(box) == box # None /\ \A f \in {"x", "y", "w", "h"} : Parses(box[1][f])
BadBox(box) == box # None /\ \E f \in {"x", "y", "w", "h"} : BadText(box[1][f])
GoodCount(points) == Cardinality({n \in 1..Len(points) : GoodPoint(points[n])})

BadEndpoint(d) ==
    \E n \in 1..Len(d.arcs) :
        /\ d.arcs[n].start # None
        /\ d.arcs[n].end # None
        /\ BadPoint(d.arcs[n].start[1]) \/ BadPoint(d.arcs[n].end[1])

BadWaypoint(d) ==
    \E n \in 1..Len(d.arcs) : \E k \in 1..Len(d.arcs[n].nexts) : BadPoint(d.arcs[n].nexts[k])

BadGlyphCoordinate(d) ==
    \E n \in 1..Len(Flatten(d.glyphs)) :
        LET el == Flatten(d.glyphs)[n]
        IN  BadBox(el.bbox) \/ \E k \in 1..Len(el.ports) : BadPoint(el.ports[k])

HasBadCoordinate(d) == BadEndpoint(d) \/ BadWaypoint(d) \/ BadGlyphCoordinate(d)

WellFormedArcs(d) ==
    \A n \in 1..Len(d.arcs) :
        /\ d.arcs[n].start # None
        /\ d.arcs[n].end # None
        /\ GoodPoint(d.arcs[n].start[1])
        /\ GoodPoint(d.arcs[n].end[1])

HasCoordinate(d) ==
    \E n \in 1..Len(Flatten(d.glyphs)) :
        LET el == Flatten(d.glyphs)[n]
        IN  GoodBox(el.bbox) \/ \E k \in 1..Len(el.ports) : GoodPoint(el.ports[k])

Parsed == pc # "start" /\ doc.well_formed /\ doc.has_map

\* C5 as stated: unparseable numeric text in any coordinate of an arc start,
\* end or next, of a glyph bbox or of a port makes the parse fail, and
\* nothing is rendered.
C5_AnyBadCoordinateFatal ==
    (Parsed /\ HasBadCoordinate(doc)) => (IsError /\ ctx = None)

\* C5: unparseable numeric text is fatal in the x or y of an arc's start or
\* end only. Unparseable text in a next waypoint or a port drops that
\* waypoint or port, and in a bbox attribute it leaves the glyph without
\* bounding box; the parse then succeeds as long as some bbox or port
\* coordinate remains.
C5_BadCoordinates ==
    /\ (Parsed /\ BadEndpoint(doc)) => (IsError /\ ctx = None)
    /\ (Parsed /\ WellFormedArcs(doc) /\ HasCoordinate(doc)) => ~IsError
    /\ (Parsed /\ ~IsError) =>
          /\ Len(arcs) = Len(doc.arcs)
          /\ \A n \in 1..Len(arcs) :
                Len(arcs[n].points) = 2 + GoodCount(doc.arcs[n].nexts)
          /\ Len(glyphs) = Len(Flatten(doc.glyphs))
          /\ \A n \in 1..Len(glyphs) :
                LET el == Flatten(doc.glyphs)[n]
                IN  /\ glyphs[n].bbox # None <=> GoodBox(el.bbox)
                    /\ Len(glyphs[n].ports) = GoodCount(el.ports)

\* The run has finished without error on a document with an unparseable
\* waypoint, which the arc has lost.
C5_Witness ==
    /\ pc = "done"
    /\ result = Some(Ok("unit"))
    /\ BadWaypoint(doc)
    /\ \E n \in 1..Len(arcs) : Len(arcs[n].points) < 2 + Len(doc.arcs[n].nexts)

NoText(ops) ==
    \A n \in 1..Len(ops) : \A k \in 1..Len(ops[n].path) : ops[n].path[k][1] # "T"

----------------------------------------------------------------------------
(* Arc decorations.                                                        *)
PointsPx(a) ==
    [n \in 1..Len(a.points) |-> map_point(transform[1], a.points[n].x, a.points[n].y)]

EndOf(a) == PointsPx(a)[Len(a.points)]
PrevOf(a) == PointsPx(a)[Len(a.points) - 1]
Degenerate(a) == EndOf(a) = PrevOf(a)

StrokeOp(path) ==
    [ op |-> "stroke", path |-> path, src |-> BORDER_COLOR, lw |-> DEFAULT_LINE_WIDTH,
      clip |-> <<>> ]

FillOp(path, colour) ==
    [ op |-> "fill", path |-> path, src |-> colour, lw |-> DEFAULT_LINE_WIDTH,
      clip |-> <<>> ]

\* Every segment of the arc has been stroked, in order, one stroke each.
PolylineStroked(e) ==
    LET p == PointsPx(arcs[e.i])
    IN  \A n \in 1..(Len(p) - 1) :
            ctx[1].ops[e.lo + n - 1] =
                StrokeOp(<< <<"M", p[n].x, p[n].y>>, <<"L", p[n + 1].x, p[n + 1].y>> >>)

\* What the arc has drawn after its polyline.
Decoration(e) == SubSeq(ctx[1].ops, e.lo + Len(arcs[e.i].points) - 1, e.hi)

ArrowSizePx == scale_scalar(transform[1], RMul(ARROW_SIZE, ARROW_SCALE))
BarLengthPx == scale_scalar(transform[1], RMul(BAR_LENGTH, ARROW_SCALE))
BarOffsetPx == scale_scalar(transform[1], RMul(BAR_OFFSET, ARROW_SCALE))
CircleRadius == RMax(RMul(ArrowSizePx, Rat(4, 10)), R(1))

Circle(center) == << <<"A", center.x, center.y, CircleRadius, CircleRadius, 0, 4>> >>

IsCircle(path) ==
    /\ Len(path) = 1
    /\ path[1][1] = "A"
    /\ path[1][4] = CircleRadius /\ path[1][5] = CircleRadius
    /\ path[1][6] = 0 /\ path[1][7] = 4

\* The point at the given distance behind the end of the final segment.
Behind(a, distance) ==
    LET dx == RSub(EndOf(a).x, PrevOf(a).x)
        dy == RSub(EndOf(a).y, PrevOf(a).y)
        len == RSqrt(RAdd(RMul(dx, dx), RMul(dy, dy)))
    IN  [ x |-> RSub(EndOf(a).x, RDiv(RMul(dx, distance), len)),
          y |-> RSub(EndOf(a).y, RDiv(RMul(dy, distance), len)) ]

Midpoint(p, q) == [x |-> RDiv(RAdd(p[2], q[2]), R(2)), y |-> RDiv(RAdd(p[3], q[3]), R(2))]

\* Whether the line from path element p to path element q is perpendicular
\* to the final segment of the arc.
Perpendicular(a, p, q) ==
    RAdd(RMul(RSub(q[2], p[2]), RSub(EndOf(a).x, PrevOf(a).x)),
         RMul(RSub(q[3], p[3]), RSub(EndOf(a).y, PrevOf(a).y))) = R(0)

\* A closed triangle with its tip at the end of the arc and its base across
\* the final segment, ArrowSizePx behind the tip.
IsTriangle(path, a) ==
    /\ Len(path) = 4
    /\ path[1][1] = "M" /\ path[2][1] = "L"
    /\ path[3] = <<"L", EndOf(a).x, EndOf(a).y>>
    /\ path[4] = <<"Z">>
    /\ Midpoint(path[1], path[2]) = Behind(a, ArrowSizePx)
    /\ Perpendicular(a, path[1], path[2])

\* A line of length BarLengthPx across the final segment, centred on it at
\* the given distance behind the end.
IsBar(path, a, offset) ==
    /\ Len(path) = 2
    /\ path[1][1] = "M" /\ path[2][1] = "L"
    /\ Midpoint(path[1], path[2]) = Behind(a, offset)
    /\ Perpendicular(a, path[1], path[2])
    /\ RAdd(RMul(RSub(path[2][2], path[1][2]), RSub(path[2][2], path[1][2])),
            RMul(RSub(path[2][3], path[1][3]), RSub(path[2][3], path[1][3])))
           = RMul(BarLengthPx, BarLengthPx)

DecorationTable(a, dec) ==
    CASE a.class_name \in {<<"assignment">>, <<"unknown", "influence">>} ->
           /\ Len(dec) = 1
           /\ dec[1] = StrokeOp(dec[1].path)
           /\ IsTriangle(dec[1].path, a)
      [] a.class_name \in {<<"positive", "influence">>, <<"stimulation">>} ->
           /\ Len(dec) = 2
           /\ dec[1] = FillOp(dec[1].path, WHITE)
           /\ dec[2] = StrokeOp(dec[1].path)
           /\ IsTriangle(dec[1].path, a)
      [] a.class_name = <<"production">> ->
           /\ Len(dec) = 1
           /\ dec[1] = FillOp(dec[1].path, BORDER_COLOR)
           /\ IsTriangle(dec[1].path, a)
      [] a.class_name \in {<<"negative", "influence">>, <<"inhibition">>} ->
           /\ Len(dec) = 1
           /\ dec[1] = StrokeOp(dec[1].path)
           /\ IsBar(dec[1].path, a, R(0))
      [] a.class_name = <<"absolute", "inhibition">> ->
           /\ Len(dec) = 2
           /\ dec[1] = StrokeOp(dec[1].path)
           /\ IsBar(dec[1].path, a, R(0))
           /\ dec[2] = StrokeOp(dec[2].path)
           /\ IsBar(dec[2].path, a, BarOffsetPx)
      [] a.class_name = <<"necessary", "stimulation">> ->
           /\ Len(dec) = 3
           /\ dec[1] = StrokeOp(dec[1].path)
           /\ IsBar(dec[1].path, a, BarOffsetPx)
           /\ dec[2] = FillOp(dec[2].path, WHITE)
           /\ dec[3] = StrokeOp(dec[2].path)
           /\ IsTriangle(dec[2].path, a)
      [] a.class_name = <<"catalysis">> ->
           /\ Len(dec) = 2
           /\ dec[1] = FillOp(dec[1].path, WHITE)
           /\ dec[2] = StrokeOp(dec[1].path)
           /\ IsCircle(dec[1].path)
      [] a.class_name = <<"equivalence", "arc">> ->
           dec = <<StrokeOp(Circle(EndOf(a)))>>
      [] OTHER -> dec = <<>>

C8_DecorationTable ==
    ctx # None =>
        \A m \in 1..Len(trace) :
            (trace[m].k = "arc" /\ ~Degenerate(arcs[trace[m].i])) =>
                /\ PolylineStroked(trace[m])
                /\ DecorationTable(arcs[trace[m].i], Decoration(trace[m]))

\* A necessary stimulation arc with a slanted final segment has been drawn.
C8_Witness ==
    /\ ctx # None
    /\ \E m \in 1..Len(trace) :
          /\ trace[m].k = "arc"
          /\ arcs[trace[m].i].class_name = <<"necessary", "stimulation">>
          /\ EndOf(arcs[trace[m].i]).x # PrevOf(arcs[trace[m].i]).x
          /\ EndOf(arcs[trace[m].i]).y # PrevOf(arcs[trace[m].i]).y
          /\ Len(Decoration(trace[m])) = 3

----------------------------------------------------------------------------
(* Class dispatch and multimers.                                           *)
\* The classes the match of render_glyph_tree names.
MatchedClasses ==
    { <<"phenotype">>, <<"outcome">>, <<"perturbing", "agent">>,
      <<"simple", "chemical">>, <<"simple", "chemical", "multimer">>,
      <<"unspecified", "entity">>,
      <<"macromolecule">>, <<"macromolecule", "multimer">>,
      <<"nucleic", "acid", "feature">>, <<"nucleic", "acid", "feature", "multimer">>,
      <<"complex">>, <<"complex", "multimer">>,
      <<"source", "and", "sink">>, <<"compartment">>, <<"tag">>, <<"association">>,
      <<"dissociation">>, <<"process">>, <<"omitted", "process">>,
      <<"uncertain", "process">>, UnitOfInformation, StateVariable,
      <<"and">>, <<"or">>, <<"not">> }

\* The entity pool classes whose multimer the match names.
MultimerBases ==
    { <<"simple", "chemical">>, <<"macromolecule">>, <<"nucleic", "acid", "feature">>,
      <<"complex">> }

IsMultimerOf(class_name, bases) == \E base \in bases : class_name = Multimer(base)
BaseOf(class_name) == SubSeq(class_name, 1, Len(class_name) - 1)

\* The shape family of an entity pool class: ellipse, rounded rectangle,
\* rounded-bottom rectangle, cut-corner rectangle, concave hexagon.
FamilyOf(base) ==
    CASE base \in {<<"simple", "chemical">>, <<"unspecified", "entity">>} -> "path_ellipse"
      [] base = <<"macromolecule">> -> "macromolecule"
      [] base = <<"nucleic", "acid", "feature">> -> "nucleic acid feature"
      [] base = <<"complex">> -> "complex"
      [] base = <<"perturbing", "agent">> -> "path_concave_hexagon"

\* Whether the draw of trace entry e has stroked the given outline.
DrawsShape(e, path) ==
    \E n \in e.lo..e.hi :
        /\ ctx[1].ops[n].op = "stroke"
        /\ ctx[1].ops[n].path = path
        /\ ctx[1].ops[n].src = BORDER_COLOR

GlyphEntries == {m \in 1..Len(trace) : trace[m].k = "glyph"}

GhostOffset(base) ==
    CASE base = <<"simple", "chemical">> -> <<R(5), R(5)>>
      [] base \in {<<"macromolecule">>, <<"nucleic", "acid", "feature">>} -> <<R(12), R(12)>>
      [] base = <<"complex">> -> <<R(16), R(16)>>

\* The rectangle of the primary shape moved by the ghost offset of its base
\* class, scaled by actual over reference width and height.
GhostRect(g) ==
    LET rect == RectOf(g)
        base == BaseOf(g.class_name)
        ref == default_dimensions(base)[1]
        dx == RDiv(RMul(GhostOffset(base)[1], rect.width), ref[1])
        dy == RDiv(RMul(GhostOffset(base)[2], rect.height), ref[2])
    IN  [ x0 |-> RAdd(rect.x0, dx), y0 |-> RAdd(rect.y0, dy),
          width |-> rect.width, height |-> rect.height,
          center |-> [x |-> RAdd(rect.center.x, dx), y |-> RAdd(rect.center.y, dy)] ]

OpsWithPath(e, path) == {n \in e.lo..e.hi : ctx[1].ops[n].path = path}

\* C10: a multimer of simple chemical, macromolecule, nucleic acid feature
\* or complex gets exactly one ghost: the shape of its base class, of the
\* size of the primary shape, at the tabulated offset scaled by actual over
\* reference size, without label and without clone marker, drawn before
\* everything of the primary shape. Every other entity pool glyph starts
\* with its primary shape: no ghost.
C10_MultimerGhost ==
    ctx # None =>
        \A m \in GlyphEntries :
            LET e == trace[m]
                g == glyphs[e.i]
                base == BaseOf(g.class_name)
            IN  /\ IsMultimerOf(g.class_name, MultimerBases) =>
                      LET ghost == OpsWithPath(e, PathAt(FamilyOf(base), GhostRect(g)))
                          primary == OpsWithPath(e, PathAt(FamilyOf(base), RectOf(g)))
                      IN  /\ Cardinality({n \in ghost : ctx[1].ops[n].op = "stroke"}) = 1
                          /\ primary # {}
                          /\ \A n \in ghost : \A k \in primary : n < k
                          /\ \A n \in e.lo..e.hi :
                                (\A k \in primary : n < k) =>
                                    /\ n \in ghost
                                    /\ ctx[1].ops[n].clip = <<>>
                /\ g.class_name \in EntityPoolClasses =>
                      ctx[1].ops[e.lo].path = PathAt(FamilyOf(g.class_name), RectOf(g))
                /\ IsMultimerOf(g.class_name, EntityPoolClasses \ MultimerBases) =>
                      ctx[1].ops[e.lo].path = PathAt("path_rect", RectOf(g))

\* A nucleic acid feature multimer has been drawn on a box that is not of
\* the reference size, with its ghost.
C10_Witness ==
    /\ ctx # None
    /\ \E m \in GlyphEntries :
          LET g == glyphs[trace[m].i]
          IN  /\ g.class_name = <<"nucleic", "acid", "feature", "multimer">>
              /\ RectOf(g).width # R(88)
              /\ OpsWithPath(trace[m], PathAt("nucleic acid feature", GhostRect(g))) # {}

----------------------------------------------------------------------------
(* Overlays.                                                               *)
ChildrenOf(g) == GlyphsAt(glyphs, child_map_get(glyphs, g.id))

\* The classes whose arm in draw_entity_pool_aux_items draws a unit of
\* information, and those whose arm draws a state variable.
UnitHosts == EntityPoolClasses \cup {Multimer(base) : base \in MultimerBases}
StateHosts ==
    { <<"unspecified", "entity">>, <<"macromolecule">>, <<"nucleic", "acid", "feature">>,
      <<"complex">>, <<"macromolecule", "multimer">>,
      <<"nucleic", "acid", "feature", "multimer">>, <<"complex", "multimer">> }

\* The label of an auxiliary glyph: its own, or for a state variable with a
\* blank label value@variable, the value, the variable, or nothing.
AuxLabelOf(k) ==
    IF k.class_name = StateVariable /\ IsBlank(k.label)
    THEN CASE k.state_value \notin {None, Some(<<>>)}
                  /\ k.state_variable \notin {None, Some(<<>>)}
                  -> k.state_value[1] \o <<"@">> \o k.state_variable[1]
           [] k.state_value \notin {None, Some(<<>>)} -> k.state_value[1]
           [] k.state_variable \notin {None, Some(<<>>)} -> k.state_variable[1]
           [] OTHER -> <<>>
    ELSE k.label

\* The children of g of the class that have no bounding box and a label.
OverlayCandidates(g, class) ==
    { n \in 1..Len(ChildrenOf(g)) :
          /\ ChildrenOf(g)[n].class_name = class
          /\ ChildrenOf(g)[n].bbox = None
          /\ ~IsBlank(AuxLabelOf(ChildrenOf(g)[n])) }

\* The texts laid out by the draw of trace entry e.
TextsOf(e) ==
    UNION { { ctx[1].ops[n].path[k][4] :
                  k \in {k \in 1..Len(ctx[1].ops[n].path) : ctx[1].ops[n].path[k][1] = "T"} } :
            n \in e.lo..e.hi }

\* C11 as stated: an entity pool glyph with a child of an auxiliary class
\* that has no bounding box and a non-blank label shows an overlay with the
\* label of such a child, whatever its siblings are; and an overlay text is
\* never the label of a child drawn at its own box only.
C11_OverlayFromBoxlessChildren ==
    ctx # None =>
        \A m \in GlyphEntries :
            LET g == glyphs[trace[m].i]
            IN  /\ (g.class_name \in UnitHosts
                        /\ OverlayCandidates(g, UnitOfInformation) # {}) =>
                       \E n \in OverlayCandidates(g, UnitOfInformation) :
                           AuxLabelOf(ChildrenOf(g)[n]) \in TextsOf(trace[m])
                /\ (g.class_name \in StateHosts
                        /\ OverlayCandidates(g, StateVariable) # {}) =>
                       \E n \in OverlayCandidates(g, StateVariable) :
                           AuxLabelOf(ChildrenOf(g)[n]) \in TextsOf(trace[m])

\* The overlay label render_glyph_tree takes for a slot: that of the first
\* child of the class, if it is not blank and no child of the class has a
\* bounding box.
OverlayLabel(g, class) ==
    LET of_class == SelectSeq(ChildrenOf(g), LAMBDA k : k.class_name = class)
    IN  IF of_class = <<>> \/ (\E n \in 1..Len(of_class) : of_class[n].bbox # None)
        THEN None
        ELSE IF IsBlank(AuxLabelOf(of_class[1])) THEN None
        ELSE Some(AuxLabelOf(of_class[1]))

\* The reference height of the class of g.
RefHeight(g) == default_dimensions(strip_suffix_multimer(g.class_name))[1][2]

\* The line across the rectangle of g at the reference height ref_y.
Separator(g, ref_y) ==
    LET rect == RectOf(g)
        y == RAdd(rect.y0, RDiv(RMul(R(ref_y), rect.height), RefHeight(g)))
    IN  << <<"M", rect.x0, y>>, <<"L", RAdd(rect.x0, rect.width), y>> >>

\* The strokes of entry e that are lines across the rectangle of g.
LinesAcross(e, g) ==
    { n \in e.lo..e.hi :
          /\ ctx[1].ops[n].op = "stroke"
          /\ Len(ctx[1].ops[n].path) = 2
          /\ ctx[1].ops[n].path[1][1] = "M" /\ ctx[1].ops[n].path[2][1] = "L"
          /\ ctx[1].ops[n].path[1][2] = RectOf(g).x0
          /\ ctx[1].ops[n].path[2][2] = RAdd(RectOf(g).x0, RectOf(g).width)
          /\ ctx[1].ops[n].path[1][3] = ctx[1].ops[n].path[2][3] }

\* The separator lines entry e has drawn for g are exactly those at the
\* reference heights ys, each once and in the auxiliary line colour.
SeparatorsAre(e, g, ys) ==
    /\ Cardinality(LinesAcross(e, g)) = Cardinality(ys)
    /\ \A y \in ys : \E n \in LinesAcross(e, g) :
           /\ ctx[1].ops[n].path = Separator(g, y)
           /\ ctx[1].ops[n].src = AUX_LINE_COLOR

\* C12: a simple chemical, multimer or not, gets both separator lines, at
\* the reference heights 8 and 52, when it has a unit-of-information overlay
\* label, and no line at all when it has none, whatever its state-variable
\* children are.
C12_SimpleChemicalLines ==
    ctx # None =>
        \A m \in GlyphEntries :
            LET g == glyphs[trace[m].i]
            IN  strip_suffix_multimer(g.class_name) = <<"simple", "chemical">> =>
                    SeparatorsAre(trace[m], g,
                                  IF OverlayLabel(g, UnitOfInformation) # None
                                  THEN {8, 52} ELSE {})

\* A simple chemical with a unit-of-information label and a labelled state
\* variable has been drawn, with two lines.
C12_Witness ==
    /\ ctx # None
    /\ \E m \in GlyphEntries :
          LET g == glyphs[trace[m].i]
          IN  /\ g.class_name = <<"simple", "chemical">>
              /\ OverlayLabel(g, StateVariable) # None
              /\ OverlayLabel(g, UnitOfInformation) # None
              /\ Cardinality(LinesAcross(trace[m], g)) = 2

\* C13 as stated: an unspecified entity, a macromolecule and a nucleic acid
\* feature get the first separator line (reference height 8) when the
\* unit-of-information label or the state-variable label is present, the
\* second (reference height 52) when the unit-of-information label is, and
\* no other line.
C13_SeparatorLines ==
    ctx # None =>
        \A m \in GlyphEntries :
            LET g == glyphs[trace[m].i]
                u == OverlayLabel(g, UnitOfInformation) # None
                sv == OverlayLabel(g, StateVariable) # None
            IN  g.class_name \in { <<"unspecified", "entity">>, <<"macromolecule">>,
                                   <<"nucleic", "acid", "feature">> } =>
                    SeparatorsAre(trace[m], g,
                                  (IF u \/ sv THEN {8} ELSE {}) \cup (IF u THEN {52} ELSE {}))

\* The functions that have returned so far in the pass.
Returned == {r[1] : r \in ctx[1].rets}

\* The text a label makes: none when it is blank.
TextOf(label) == IF IsBlank(label) THEN {} ELSE {label}

\* C14: a state variable glyph drawn at its own box, in the recursion or in
\* the auxiliary pass, shows its label when that is not blank and else
\* value@variable, the value alone, the variable alone, or no text, by which
\* of the two is non-empty; the state-variable overlay of an entity pool
\* glyph shows the same label, and when that label is blank the overlay box
\* is not drawn at all.
C14_StateVariableLabel ==
    ctx # None =>
        /\ \A m \in 1..Len(trace) :
               LET g == glyphs[trace[m].i]
               IN  (trace[m].k \in {"glyph", "aux"} /\ g.class_name = StateVariable) =>
                       TextsOf(trace[m]) = TextOf(AuxLabelOf(g))
        /\ \A m \in GlyphEntries :
               LET g == glyphs[trace[m].i]
                   sv == OverlayLabel(g, StateVariable)
                   u == OverlayLabel(g, UnitOfInformation)
               IN  g.class_name \in StateHosts =>
                       TextsOf(trace[m]) =
                           TextOf(g.label) \cup (IF sv = None THEN {} ELSE {sv[1]})
                                           \cup (IF u = None THEN {} ELSE {u[1]})
        /\ "draw_state_var" \in Returned <=>
               \E m \in GlyphEntries :
                   /\ glyphs[trace[m].i].class_name \in StateHosts
                   /\ OverlayLabel(glyphs[trace[m].i], StateVariable) # None

\* A macromolecule has been drawn whose state variable child has no bounding
\* box, a blank label, the value "P" and the variable "S1", with the overlay
\* "P@S1".
C14_Witness ==
    /\ ctx # None
    /\ "draw_state_var" \in Returned
    /\ \E m \in GlyphEntries :
          LET g == glyphs[trace[m].i]
          IN  /\ g.class_name = <<"macromolecule">>
              /\ Len(ChildrenOf(g)) = 1
              /\ ChildrenOf(g)[1].label = <<" ">>
              /\ ChildrenOf(g)[1].bbox = None
              /\ <<"P", "@", "S", "1">> \in TextsOf(trace[m])

----------------------------------------------------------------------------
(* Placement.                                                              *)
\* The x and the y coordinates of the content: box corners and ports.
XsOf(g) ==
    (IF g.bbox = None THEN {} ELSE {g.bbox[1].x, RAdd(g.bbox[1].x, g.bbox[1].w)})
    \cup {g.ports[k].x : k \in 1..Len(g.ports)}
YsOf(g) ==
    (IF g.bbox = None THEN {} ELSE {g.bbox[1].y, RAdd(g.bbox[1].y, g.bbox[1].h)})
    \cup {g.ports[k].y : k \in 1..Len(g.ports)}
ContentXs == UNION {XsOf(glyphs[n]) : n \in 1..Len(glyphs)}
ContentYs == UNION {YsOf(glyphs[n]) : n \in 1..Len(glyphs)}
Least(S) == CHOOSE v \in S : \A u \in S : RLe(v, u)
Greatest(S) == CHOOSE v \in S : \A u \in S : RLe(u, v)
PaddedSpan(S) == RAdd(RSub(Greatest(S), Least(S)), RMul(R(2), padding))

\* A padding of at least 0 under which both padded spans are at least 1.
Placeable ==
    /\ transform # None
    /\ RLe(R(0), padding)
    /\ RLe(R(1), PaddedSpan(ContentXs))
    /\ RLe(R(1), PaddedSpan(ContentYs))

\* The pixel rectangle with origin (x - min_x + p, y - min_y + p) and the
\* size of the box.
Placed(bbox) ==
    LET x0 == RAdd(RSub(bbox.x, Least(ContentXs)), padding)
        y0 == RAdd(RSub(bbox.y, Least(ContentYs)), padding)
    IN  [ x0 |-> x0, y0 |-> y0, width |-> bbox.w, height |-> bbox.h,
          center |-> [ x |-> RAdd(x0, RDiv(bbox.w, R(2))),
                       y |-> RAdd(y0, RDiv(bbox.h, R(2))) ] ]

\* Every glyph drawn so far whose box has no negative side has been given
\* the rectangle Placed of its box, and a macromolecule among them shows its
\* outline there.
PlacedRight ==
    ctx # None =>
        \A m \in GlyphEntries :
            LET g == glyphs[trace[m].i]
            IN  (RLe(R(0), g.bbox[1].w) /\ RLe(R(0), g.bbox[1].h)) =>
                    /\ RectOf(g) = Placed(g.bbox[1])
                    /\ g.class_name = <<"macromolecule">> =>
                          DrawsShape(trace[m], PathAt("macromolecule", Placed(g.bbox[1])))

\* C15 as stated: under a padding p >= 0 whose padded spans are at least 1,
\* the canvas of every output is (max_x - min_x + 2p) by (max_y - min_y + 2p)
\* pixels, and a box (x, y, w, h) with w, h >= 0 maps to the pixel rectangle
\* with origin (x - min_x + p, y - min_y + p) and size (w, h).
C15_CanvasIsPaddedSpan ==
    Placeable =>
        /\ canvas[1] = [width |-> PaddedSpan(ContentXs), height |-> PaddedSpan(ContentYs)]
        /\ \A n \in 1..Len(surfaces) :
              /\ surfaces[n].width = PaddedSpan(ContentXs)
              /\ surfaces[n].height = PaddedSpan(ContentYs)
        /\ PlacedRight

\* C15: under a padding p >= 0 whose padded spans are at least 1, the sizes
\* transform_with_padding returns and the vector surface are
\* (max_x - min_x + 2p) by (max_y - min_y + 2p), the raster surface has these
\* sizes rounded up to whole pixels, and a box (x, y, w, h) with w, h >= 0
\* maps to the pixel rectangle with origin (x - min_x + p, y - min_y + p) and
\* size (w, h).
C15_CanvasAndPlacement ==
    Placeable =>
        /\ canvas[1] = [width |-> PaddedSpan(ContentXs), height |-> PaddedSpan(ContentYs)]
        /\ \A n \in 1..Len(surfaces) :
              IF surfaces[n].kind = "svg"
              THEN /\ surfaces[n].width = PaddedSpan(ContentXs)
                   /\ surfaces[n].height = PaddedSpan(ContentYs)
              ELSE /\ surfaces[n].width = R(RCeil(PaddedSpan(ContentXs)))
                   /\ surfaces[n].height = R(RCeil(PaddedSpan(ContentYs)))
        /\ PlacedRight

\* The single macromolecule with box (0, 0, 96, 48) under padding 10 has been
\* drawn to the vector surface: a 116 by 68 canvas, and the outline over the
\* rectangle from (10, 10) to (106, 58).
C15_Witness ==
    /\ Placeable
    /\ pc = "render_svg"
    /\ padding = R(10)
    /\ Len(glyphs) = 1
    /\ glyphs[1].class_name = <<"macromolecule">>
    /\ glyphs[1].bbox = Some([x |-> R(0), y |-> R(0), w |-> R(96), h |-> R(48)])
    /\ surfaces[2] = [kind |-> "svg", width |-> R(116), height |-> R(68)]
    /\ \E m \in GlyphEntries :
          DrawsShape(trace[m],
                     PathAt("macromolecule",
                            [ x0 |-> R(10), y0 |-> R(10), width |-> R(96), height |-> R(48),
                              center |-> [x |-> R(58), y |-> R(34)] ]))

\* The elements of the paths that the draw of trace entry e has painted.
PathElements(e) ==
    UNION { {ctx[1].ops[n].path[k] : k \in 1..Len(ctx[1].ops[n].path)} : n \in e.lo..e.hi }

\* Width and height of every rectangle and the radii of every arc that the
\* draw of e has traced are at least 0.
NonNegativeExtents(e) ==
    \A el \in PathElements(e) :
        el[1] \in {"R", "A"} => (RLe(R(0), el[4]) /\ RLe(R(0), el[5]))

\* C16 as stated: for every glyph that is drawn, of every class, the pixel
\* rectangle or the radius handed to the shape path has width and height at
\* least 0, whatever the signs of the width and height of the bounding box;
\* the square of the process classes and the circle of and, or, not included.
C16_PixelRectNormalized ==
    ctx # None =>
        \A m \in 1..Len(trace) :
            trace[m].k \in {"glyph", "aux"} => NonNegativeExtents(trace[m])

\* A rational is finite and positive: a denominator 0 stands for the result
\* of a division by zero.
FinitePositive(a) == a[1] > 0 /\ a[2] > 0

\* The content has zero span on the x axis, on the y axis, after padding.
ZeroSpanX == transform # None /\ PaddedSpan(ContentXs) = R(0)
ZeroSpanY == transform # None /\ PaddedSpan(ContentYs) = R(0)

\* C17: when the padded content has zero span on an axis, the span is
\* clamped to 1: the scale of that axis is 1 and the canvas side is 1, both
\* scales are finite and positive, and draw_sbgnml neither returns an error
\* nor aborts: when it has ended it has returned Ok and written both files.
C17_DegenerateSpan ==
    /\ ZeroSpanX => (transform[1].scale_x = R(1) /\ canvas[1].width = R(1))
    /\ ZeroSpanY => (transform[1].scale_y = R(1) /\ canvas[1].height = R(1))
    /\ (ZeroSpanX \/ ZeroSpanY) =>
          /\ FinitePositive(transform[1].scale_x)
          /\ FinitePositive(transform[1].scale_y)
          /\ ~IsError
          /\ pc # "aborted"
          /\ \A n \in 1..Len(surfaces) :
                surfaces[n].width[1] >= 1 /\ surfaces[n].height[1] >= 1
          /\ pc = "done" => (result = Some(Ok("unit")) /\ Len(files) = 2)

\* A glyph whose box has no width, under padding 0, has been drawn to both
\* surfaces, each one pixel wide, and draw_sbgnml has returned Ok.
C17_Witness ==
    /\ ZeroSpanX
    /\ ~ZeroSpanY
    /\ padding = R(0)
    /\ pc = "done"
    /\ result = Some(Ok("unit"))
    /\ surfaces[1].width = R(1)
    /\ surfaces[2].width = R(1)
    /\ Len(trace) = 1
    /\ trace[1].hi >= trace[1].lo

----------------------------------------------------------------------------
----------------------------------------------------------------------------
(* Arc points.                                                             *)
\* The point a start, next or end element with parseable coordinates gives.
PointOf(pt) == [x |-> parse_f64(pt.x)[1], y |-> parse_f64(pt.y)[1]]

\* The next elements of an arc element that have parseable coordinates.
Waypoints(el) == SelectSeq(el.nexts, GoodPoint)

\* C19: every Arc that parse_sbgn produces has at least two points; the
\* first is the start element of its arc element, the last the end element,
\* and between them are the next elements with parseable coordinates, in
\* document order. An arc element without start or without end makes the
\* parse fail, and no Arc is produced.
C19_ArcPointSequence ==
    /\ (Parsed /\ ~IsError) =>
          /\ Len(arcs) = Len(doc.arcs)
          /\ \A n \in 1..Len(arcs) :
                LET el == doc.arcs[n]
                    points == arcs[n].points
                IN  /\ Len(points) >= 2
                    /\ points[1] = PointOf(el.start[1])
                    /\ points[Len(points)] = PointOf(el.end[1])
                    /\ SubSeq(points, 2, Len(points) - 1)
                          = [k \in 1..Len(Waypoints(el)) |-> PointOf(Waypoints(el)[k])]
    /\ (Parsed /\ \E n \in 1..Len(doc.arcs) :
                      doc.arcs[n].start = None \/ doc.arcs[n].end = None) =>
          (IsError /\ arcs = <<>> /\ pc = "done")

\* An arc with two different waypoints, start and end all different has been
\* parsed and drawn.
C19_Witness ==
    /\ Parsed
    /\ ~IsError
    /\ arc_i > 1
    /\ Len(doc.arcs[1].nexts) >= 2
    /\ Len(arcs[1].points) >= 4
    /\ Cardinality({arcs[1].points[k] : k \in 1..Len(arcs[1].points)}) >= 4

----------------------------------------------------------------------------
(* Anchoring of decorations.                                               *)
\* The final segment of the arc runs along an axis.
AxisAligned(a) ==
    ~Degenerate(a) /\ (EndOf(a).x = PrevOf(a).x \/ EndOf(a).y = PrevOf(a).y)

Sign(a) == IF a[1] > 0 THEN R(1) ELSE IF a[1] < 0 THEN R(-1) ELSE R(0)

\* The point on the final segment of an axis-aligned arc at the distance
\* back behind its end, moved by side across the segment.
Anchor(a, back, side) ==
    LET ux == Sign(RSub(EndOf(a).x, PrevOf(a).x))
        uy == Sign(RSub(EndOf(a).y, PrevOf(a).y))
    IN  [ x |-> RSub(RSub(EndOf(a).x, RMul(ux, back)), RMul(uy, side)),
          y |-> RAdd(RSub(EndOf(a).y, RMul(uy, back)), RMul(ux, side)) ]

\* The bar: from half its length on one side of the segment to half its
\* length on the other, at the bar offset behind the end.
AnchoredBar(a) ==
    LET p0 == Anchor(a, BarOffsetPx, RNeg(RDiv(BarLengthPx, R(2))))
        p1 == Anchor(a, BarOffsetPx, RDiv(BarLengthPx, R(2)))
    IN  << <<"M", p0.x, p0.y>>, <<"L", p1.x, p1.y>> >>

\* The triangle: base vertices at the arrow size behind the end, 0.6 times
\* the arrow size to either side, and the tip at the end.
AnchoredTriangle(a) ==
    LET p1 == Anchor(a, ArrowSizePx, RMul(Rat(6, 10), ArrowSizePx))
        p2 == Anchor(a, ArrowSizePx, RNeg(RMul(Rat(6, 10), ArrowSizePx)))
    IN  << <<"M", p1.x, p1.y>>, <<"L", p2.x, p2.y>>,
           <<"L", EndOf(a).x, EndOf(a).y>>, <<"Z">> >>

\* C20: a necessary stimulation arc whose final segment runs along an axis
\* gets, after its polyline, first the bar, perpendicular to the segment,
\* centred at the bar offset behind the last point, half the bar length to
\* either side, and then the white-filled, stroked triangle with its tip at
\* the last point and its base vertices at the arrow size behind it, 0.6
\* times the arrow size to either side; the last two points alone decide
\* this. Every triangle of another class on such a segment has its tip and
\* base at the same places.
C20_DecorationAnchoring ==
    ctx # None =>
        \A m \in 1..Len(trace) :
            (trace[m].k = "arc" /\ AxisAligned(arcs[trace[m].i])) =>
                LET a == arcs[trace[m].i]
                    dec == Decoration(trace[m])
                IN  /\ a.class_name = <<"necessary", "stimulation">> =>
                          dec = << StrokeOp(AnchoredBar(a)),
                                   FillOp(AnchoredTriangle(a), WHITE),
                                   StrokeOp(AnchoredTriangle(a)) >>
                    /\ \A n \in 1..Len(dec) :
                          Len(dec[n].path) = 4 => dec[n].path = AnchoredTriangle(a)

\* The necessary stimulation arc from the waypoint (40, 30) over pixel (0, 0)
\* to pixel (100, 0) has been drawn: the bar from (75.5, -10.5) to
\* (75.5, 10.5), then the triangle (86, 8.4), (86, -8.4), (100, 0).
C20_Witness ==
    /\ ctx # None
    /\ \E m \in 1..Len(trace) :
          /\ trace[m].k = "arc"
          /\ arcs[trace[m].i].class_name = <<"necessary", "stimulation">>
          /\ PointsPx(arcs[trace[m].i])
                = << [x |-> R(40), y |-> R(30)], [x |-> R(0), y |-> R(0)],
                     [x |-> R(100), y |-> R(0)] >>
          /\ Decoration(trace[m]) =
                << StrokeOp(<< <<"M", Rat(151, 2), Rat(-21, 2)>>,
                               <<"L", Rat(151, 2), Rat(21, 2)>> >>),
                   FillOp(<< <<"M", R(86), Rat(42, 5)>>, <<"L", R(86), Rat(-42, 5)>>,
                             <<"L", R(100), R(0)>>, <<"Z">> >>, WHITE),
                   StrokeOp(<< <<"M", R(86), Rat(42, 5)>>, <<"L", R(86), Rat(-42, 5)>>,
                               <<"L", R(100), R(0)>>, <<"Z">> >>) >>

----------------------------------------------------------------------------
(* Content bounds.                                                         *)
\* The number a parseable attribute holds.
NumberOf(attr) == parse_f64(attr)[1]

\* The x and the y coordinates a glyph element contributes: the two extreme
\* coordinates of its bounding box, when all four attributes parse, and its
\* ports that parse.
ElementXs(el) ==
    (IF GoodBox(el.bbox)
     THEN {NumberOf(el.bbox[1].x), RAdd(NumberOf(el.bbox[1].x), NumberOf(el.bbox[1].w))}
     ELSE {})
    \cup {NumberOf(el.ports[k].x) : k \in {k \in 1..Len(el.ports) : GoodPoint(el.ports[k])}}
ElementYs(el) ==
    (IF GoodBox(el.bbox)
     THEN {NumberOf(el.bbox[1].y), RAdd(NumberOf(el.bbox[1].y), NumberOf(el.bbox[1].h))}
     ELSE {})
    \cup {NumberOf(el.ports[k].y) : k \in {k \in 1..Len(el.ports) : GoodPoint(el.ports[k])}}
DocumentXs == UNION {ElementXs(Flatten(doc.glyphs)[n]) : n \in 1..Len(Flatten(doc.glyphs))}
DocumentYs == UNION {ElementYs(Flatten(doc.glyphs)[n]) : n \in 1..Len(Flatten(doc.glyphs))}

\* C21: the bounds compute_bounds returns for the parsed glyphs are, per
\* axis, the least and the greatest of the extreme box coordinates and the
\* port coordinates of the glyph elements at every depth, the ports of
\* elements without bounding box included and the points of the arcs left
\* out; the transform starts at these minima less the padding.
C21_ContentBounds ==
    transform # None =>
        /\ compute_bounds(glyphs, arcs) =
              Ok([ min_x |-> Least(DocumentXs), max_x |-> Greatest(DocumentXs),
                   min_y |-> Least(DocumentYs), max_y |-> Greatest(DocumentYs) ])
        /\ transform[1].min_x = RSub(Least(DocumentXs), padding)
        /\ transform[1].min_y = RSub(Least(DocumentYs), padding)

\* A document has been parsed whose least x is a port of a grandchild
\* without bounding box, whose greatest x is a port of a child without
\* bounding box, and whose arc lies outside these bounds.
C21_Witness ==
    /\ transform # None
    /\ Len(glyphs) = 3
    /\ glyphs[2].bbox = None /\ glyphs[3].bbox = None
    /\ glyphs[3].parent_id = Some(glyphs[2].id)
    /\ glyphs[3].ports = <<[x |-> R(-30), y |-> R(100)]>>
    /\ glyphs[2].ports = <<[x |-> R(200), y |-> R(-5)]>>
    /\ transform[1].min_x = R(-40)
    /\ canvas[1].width = R(250)
    /\ Len(arcs) = 1 /\ arcs[1].points[1].x = R(-100)

----------------------------------------------------------------------------
(* Transform round trip. The state machine computes in exact rationals;    *)
(* the round trip is also evaluated in binary floating point, round to     *)
(* nearest, ties to even, with a significand of MantissaBits bits in place *)
(* of the 53 bits of f64.                                                  *)
MantissaBits == 6

Pow2(e) == IF e >= 0 THEN R(2 ^ e) ELSE Rat(1, 2 ^ (-e))

\* The integer nearest to the rational a >= 0, the even one at a tie.
RoundEven(a) ==
    LET low == a[1] \div a[2]
        rest == 2 * (a[1] - low * a[2])
    IN  IF rest < a[2] \/ (rest = a[2] /\ low % 2 = 0) THEN low ELSE low + 1

\* The float nearest to a * 2^e, for a > 0.
RECURSIVE FlScaled(_, _)
FlScaled(a, e) ==
    IF RLt(a, Pow2(MantissaBits - 1)) THEN FlScaled(RMul(a, R(2)), e - 1)
    ELSE IF RLe(Pow2(MantissaBits), a) THEN FlScaled(RDiv(a, R(2)), e + 1)
    ELSE RMul(R(RoundEven(a)), Pow2(e))

\* The float nearest to the rational a.
Fl(a) ==
    IF a[1] = 0 THEN a
    ELSE IF a[1] < 0 THEN RNeg(FlScaled(RAbs(a), 0))
    ELSE FlScaled(a, 0)

\* map_point on one axis and the inverse map, each operation rounded.
MapFl(x, min, scale) == Fl(RMul(Fl(RSub(x, min)), scale))
UnmapFl(px, min, scale) == Fl(RAdd(Fl(RDiv(px, scale)), min))

\* The x and the y coordinates of the corners of the bounding boxes and of
\* the points of the arcs.
CornerXs ==
    UNION { {glyphs[n].bbox[1].x, RAdd(glyphs[n].bbox[1].x, glyphs[n].bbox[1].w)} :
                n \in {n \in 1..Len(glyphs) : glyphs[n].bbox # None} }
    \cup UNION { {arcs[n].points[k].x : k \in 1..Len(arcs[n].points)} : n \in 1..Len(arcs) }
CornerYs ==
    UNION { {glyphs[n].bbox[1].y, RAdd(glyphs[n].bbox[1].y, glyphs[n].bbox[1].h)} :
                n \in {n \in 1..Len(glyphs) : glyphs[n].bbox # None} }
    \cup UNION { {arcs[n].points[k].y : k \in 1..Len(arcs[n].points)} : n \in 1..Len(arcs) }

\* The coordinates among xs that are floats, when the origin is one.
Floats(xs, min) == IF Fl(min) = min THEN {x \in xs : Fl(x) = x} ELSE {}

Within(x, back, min) ==
    RLe(RAbs(RSub(back, x)), RMul(Pow2(2 - MantissaBits), RAdd(RAbs(x), RAbs(min))))

\* On one axis: in real arithmetic the round trip returns every coordinate
\* and the map is injective; in floating point the round trip stays within
\* tolerance and the map keeps the order.
AxisRoundTrip(xs, min, scale, axis) ==
    LET Map(x) == IF axis = "x" THEN map_point(transform[1], x, R(0)).x
                  ELSE map_point(transform[1], R(0), x).y
    IN
    /\ \A x \in xs :
          /\ RAdd(RDiv(Map(x), scale), min) = x
          /\ \A x2 \in xs : Map(x) = Map(x2) => x = x2
    /\ \A x \in Floats(xs, min) :
          /\ Within(x, UnmapFl(MapFl(x, min, scale), min, scale), min)
          /\ \A x2 \in Floats(xs, min) :
                RLe(x, x2) => RLe(MapFl(x, min, scale), MapFl(x2, min, scale))

----------------------------------------------------------------------------
(* Recursion order.                                                        *)
\* For the glyph elements under nodes at every depth, in document order,
\* the position of the enclosing glyph element in that order, 0 at the top;
\* parent is the position of the element that holds nodes, next the
\* position of the first of them.
RECURSIVE ParentsOf(_, _, _)
ParentsOf(nodes, parent, next) ==
    IF nodes = <<>> THEN <<>>
    ELSE LET inner == ParentsOf(Head(nodes).glyphs, next, next + 1)
         IN  <<parent>> \o inner \o ParentsOf(Tail(nodes), parent, next + 1 + Len(inner))

Enclosing == ParentsOf(doc.glyphs, 0, 1)

\* The glyph at position j is one the recursion is to draw: it has a
\* bounding box and is at the top, or is no unit of information and no
\* state variable and its enclosing glyph is one the recursion is to draw.
RECURSIVE Reached(_)
Reached(j) ==
    /\ glyphs[j].bbox # None
    /\ \/ Enclosing[j] = 0
       \/ ~IsAuxClass(glyphs[j].class_name) /\ Reached(Enclosing[j])

\* Document order is the order in which each glyph comes before its
\* children and each child with all it holds before the next child.
ExpectedRecursion == SelectSeq(Indices(glyphs), Reached)

\* C23: the recursion draws each glyph before the glyphs it holds, then
\* its children of every class but unit of information and state variable
\* in document order, each with all it holds before the next child, and
\* none of its unit-of-information and state-variable children: the
\* glyphs drawn so far are the first of ExpectedRecursion, and all of them
\* when the recursion has ended.
C23_RecursionOrder ==
    ctx # None =>
        /\ IsPrefix(IndicesOf(Entries("glyph")), ExpectedRecursion)
        /\ stack = <<>> => IndicesOf(Entries("glyph")) = ExpectedRecursion

----------------------------------------------------------------------------
(* Labels.                                                                 *)
\* The fills of the draw of trace entry e that paint the given text, as
\* positions in ops.
TextFills(e, text) ==
    { n \in e.lo..e.hi :
          /\ ctx[1].ops[n].op = "fill"
          /\ \E k \in 1..Len(ctx[1].ops[n].path) :
                ctx[1].ops[n].path[k][1] = "T" /\ ctx[1].ops[n].path[k][4] = text }

\* The path of a text whose layout has its top left corner at (x, y).
TextPath(x, y, text, font_px) ==
    layout_path(move_to(CairoContext_new, x, y), Layout(text, font_px)).path

\* The label of glyph g laid out around the centre of its rectangle, and
\* laid out centred above the bottom edge, 2 px off it.
CenteredLabel(g) ==
    LET size == pixel_size(Layout(glyph_label(g), glyph_font_px(g.class_name)))
    IN  TextPath(RSub(RectOf(g).center.x, RDiv(R(size.width), R(2))),
                 RSub(RectOf(g).center.y, RDiv(R(size.height), R(2))),
                 glyph_label(g), glyph_font_px(g.class_name))
BottomLabel(g) ==
    LET size == pixel_size(Layout(glyph_label(g), glyph_font_px(g.class_name)))
    IN  TextPath(RSub(RectOf(g).center.x, RDiv(R(size.width), R(2))),
                 RSub(RSub(RAdd(RectOf(g).y0, RectOf(g).height), R(size.height)), R(2)),
                 glyph_label(g), glyph_font_px(g.class_name))

LabelledBelow(g) ==
    strip_suffix_multimer(g.class_name) = <<"complex">> \/ g.class_name = <<"compartment">>

\* The draw of e has painted the label of g once, as the given path.
LabelOnceAs(e, g, path) ==
    /\ Cardinality(TextFills(e, glyph_label(g))) = 1
    /\ \A n \in TextFills(e, glyph_label(g)) : ctx[1].ops[n].path = path

\* For a complex, a complex multimer and a compartment: a label that is not
\* blank is painted once in the draw of the glyph, by its last operation,
\* which comes after the shape, the overlays and the ticks and before every
\* glyph drawn later; centred above the bottom edge and not around the
\* centre. A blank label is not painted.
BottomLabelled(e, g) ==
    IF IsBlank(glyph_label(g)) THEN TextFills(e, glyph_label(g)) = {}
    ELSE /\ TextFills(e, glyph_label(g)) = {e.hi}
         /\ ctx[1].ops[e.hi].path = BottomLabel(g)
         /\ BottomLabel(g) # CenteredLabel(g)

\* C24 as stated: a complex, a complex multimer and a compartment get their
\* label once, bottom-centred, 2 px above the bottom edge, after the shape,
\* the overlays and the ticks and before any child, never centred; every
\* other class gets its label centred with the shape and no bottom label.
C24_LabelPlacement ==
    ctx # None =>
        \A m \in GlyphEntries :
            LET g == glyphs[trace[m].i]
            IN  IF LabelledBelow(g) THEN BottomLabelled(trace[m], g)
                ELSE IF IsBlank(glyph_label(g)) THEN TextFills(trace[m], glyph_label(g)) = {}
                ELSE LabelOnceAs(trace[m], g, CenteredLabel(g))

\* C24: as stated for a complex, a complex multimer and a compartment. Of
\* the other classes a source and sink gets no label at all; every other
\* one gets its label, when that is not blank, once in the draw of the
\* glyph, centred on the centre of its rectangle, and no bottom label.
C24_LabelPlacementBut ==
    ctx # None =>
        \A m \in GlyphEntries :
            LET g == glyphs[trace[m].i]
            IN  IF LabelledBelow(g) THEN BottomLabelled(trace[m], g)
                ELSE IF IsBlank(glyph_label(g)) \/ g.class_name = <<"source", "and", "sink">>
                THEN TextFills(trace[m], glyph_label(g)) = {}
                ELSE LabelOnceAs(trace[m], g, CenteredLabel(g))

\* A complex with an orientation and a label has been drawn: its two ticks,
\* then, by the last operation, its label above the bottom edge.
C24_Witness ==
    /\ ctx # None
    /\ \E m \in GlyphEntries :
          LET e == trace[m]
              g == glyphs[e.i]
          IN  /\ g.class_name = <<"complex">>
              /\ g.orientation = Some("vertical")
              /\ ~IsBlank(glyph_label(g))
              /\ ctx[1].ops[e.hi].op = "fill"
              /\ ctx[1].ops[e.hi].path = BottomLabel(g)
              /\ \E n \in e.lo..(e.hi - 1) :
                    /\ ctx[1].ops[n].op = "stroke"
                    /\ Len(ctx[1].ops[n].path) = 4
                    /\ ctx[1].ops[n].path[1][1] = "M"
                    /\ ctx[1].ops[n].path[3][1] = "M"

----------------------------------------------------------------------------
(* Orientation ticks.                                                      *)
\* The side of rect on which the segment from (m[2], m[3]) to (l[2], l[3])
\* is a tick: it runs along the axis through the centre and has one end on
\* the middle of that side and the other end outside of the rectangle.
TickSide(rect, m, l) ==
    CASE m[3] = rect.center.y /\ l[3] = rect.center.y /\ l[2] = rect.x0
           /\ RLt(m[2], rect.x0) -> "left"
      [] m[3] = rect.center.y /\ l[3] = rect.center.y /\ m[2] = RAdd(rect.x0, rect.width)
           /\ RLt(m[2], l[2]) -> "right"
      [] m[2] = rect.center.x /\ l[2] = rect.center.x /\ l[3] = rect.y0
           /\ RLt(m[3], rect.y0) -> "up"
      [] m[2] = rect.center.x /\ l[2] = rect.center.x /\ m[3] = RAdd(rect.y0, rect.height)
           /\ RLt(m[3], l[3]) -> "down"
      [] OTHER -> "none"

\* The ticks stroked in the draw e of glyph g: <<operation, place in its
\* path, side, length>>.
Ticks(e, g) ==
    { <<n, k, TickSide(RectOf(g), ctx[1].ops[n].path[k], ctx[1].ops[n].path[k + 1]),
        RAdd(RAbs(RSub(ctx[1].ops[n].path[k + 1][2], ctx[1].ops[n].path[k][2])),
             RAbs(RSub(ctx[1].ops[n].path[k + 1][3], ctx[1].ops[n].path[k][3])))>> :
        <<n, k>> \in { nk \in (e.lo..e.hi) \X (1..4) :
            /\ ctx[1].ops[nk[1]].op = "stroke"
            /\ nk[2] < Len(ctx[1].ops[nk[1]].path)
            /\ ctx[1].ops[nk[1]].path[nk[2]][1] = "M"
            /\ ctx[1].ops[nk[1]].path[nk[2] + 1][1] = "L"
            /\ TickSide(RectOf(g), ctx[1].ops[nk[1]].path[nk[2]],
                        ctx[1].ops[nk[1]].path[nk[2] + 1]) # "none" } }

\* The sides the ticks of an orientation are on.
SidesOf(orientation) ==
    CASE orientation = "horizontal" -> {"left", "right"}
      [] orientation = "vertical" -> {"up", "down"}
      [] orientation \in {"left", "right", "up", "down"} -> {orientation}
      [] OTHER -> {}

DefaultsToHorizontal(g) ==
    g.class_name \in { <<"process">>, <<"omitted", "process">>, <<"uncertain", "process">>,
                       <<"association">>, <<"dissociation">> }

\* The orientation of g: the explicit one before the default of the class.
OrientationOf(g) ==
    IF g.orientation # None THEN g.orientation
    ELSE IF DefaultsToHorizontal(g) THEN Some("horizontal") ELSE None

\* One tick on each of the sides, and no other tick.
TicksOn(e, g, sides) ==
    /\ Cardinality(Ticks(e, g)) = Cardinality(sides)
    /\ { tick[3] : tick \in Ticks(e, g) } = sides

\* C25 as stated: ticks are drawn for a glyph iff it has an explicit
\* orientation or its class defaults to horizontal; horizontal draws two
\* ticks, left and right at centre height, vertical two, top and bottom at
\* centre x, and left, right, up, down one tick on that side; an explicit
\* orientation takes precedence over the default.
C25_OrientationTicks ==
    ctx # None =>
        \A m \in GlyphEntries :
            LET g == glyphs[trace[m].i]
            IN  /\ Ticks(trace[m], g) # {} <=> OrientationOf(g) # None
                /\ OrientationOf(g) # None /\ SidesOf(OrientationOf(g)[1]) # {}
                      => TicksOn(trace[m], g, SidesOf(OrientationOf(g)[1]))

\* C25: ticks are drawn for a glyph iff its orientation, the explicit one
\* or else horizontal for a process, omitted process, uncertain process,
\* association or dissociation, is one of horizontal, vertical, left, right,
\* up and down; then there is one tick on each side of that orientation
\* and no other tick. Any other explicit orientation draws no tick, also
\* for a class that defaults to horizontal.
C25_OrientationTicksOfSix ==
    ctx # None =>
        \A m \in GlyphEntries :
            LET g == glyphs[trace[m].i]
            IN  TicksOn(trace[m], g,
                        IF OrientationOf(g) = None THEN {} ELSE SidesOf(OrientationOf(g)[1]))

\* A process with the explicit orientation "up" has been drawn with its one
\* tick, on the top side, and not with the two of its default.
C25_Witness ==
    /\ ctx # None
    /\ \E m \in GlyphEntries :
          /\ glyphs[trace[m].i].class_name = <<"process">>
          /\ glyphs[trace[m].i].orientation = Some("up")
          /\ { tick[3] : tick \in Ticks(trace[m], glyphs[trace[m].i]) } = {"up"}
          /\ Cardinality(Ticks(trace[m], glyphs[trace[m].i])) = 1

\* The length the ticks of a class are to have under the transform: 20 for
\* and, or and not, 11 for every other class, times the smaller of the two
\* scales.
TickLength(class_name) ==
    RMul(IF class_name \in {<<"and">>, <<"or">>, <<"not">>} THEN R(20) ELSE R(11),
         RMin(transform[1].scale_x, transform[1].scale_y))

----------------------------------------------------------------------------
(* Border width.                                                           *)
\* The strokes of the outline of an entity pool shape of the given base
\* class in the draw e of glyph g: of the primary shape and of the ghost.
OutlineStrokes(e, g, base) ==
    { n \in OpsWithPath(e, PathAt(FamilyOf(base), RectOf(g)))
             \cup (IF base \in MultimerBases /\ g.class_name # base
                   THEN OpsWithPath(e, PathAt(FamilyOf(base), GhostRect(g))) ELSE {}) :
        ctx[1].ops[n].op = "stroke" }

\* The base classes of the glyphs drawn as entity pool shapes.
PoolBaseOf(g) ==
    IF g.class_name \in EntityPoolClasses THEN Some(g.class_name)
    ELSE IF IsMultimerOf(g.class_name, MultimerBases) THEN Some(BaseOf(g.class_name))
    ELSE None

\* C27: every stroke of the outline of an entity pool shape, of the ghost,
\* of the primary shape and the one that follows a clone marker, has line
\* width 4 when the base class is complex and 2 for every other entity pool
\* class.
C27_BorderWidth ==
    ctx # None =>
        \A m \in GlyphEntries :
            LET g == glyphs[trace[m].i]
            IN  PoolBaseOf(g) # None =>
                    \A n \in OutlineStrokes(trace[m], g, PoolBaseOf(g)[1]) :
                        ctx[1].ops[n].lw = IF PoolBaseOf(g)[1] = <<"complex">> THEN R(4) ELSE R(2)

----------------------------------------------------------------------------
(* Unit scale.                                                             *)
\* The point (x, y) moved by -(min_x - padding, min_y - padding), min_x and
\* min_y the least content coordinates.
Translated(x, y) ==
    [ x |-> RSub(x, RSub(Least(ContentXs), padding)),
      y |-> RSub(y, RSub(Least(ContentYs), padding)) ]

\* C28: the transform of transform_with_padding has scale_x = scale_y = 1
\* under every content and padding, also when a padded span is zero or
\* negative: the scale of a scalar is the scalar, a size maps to itself, and
\* a point is only translated, by (min_x - padding, min_y - padding).
C28_UnitScale ==
    transform # None =>
        /\ transform[1].scale_x = R(1)
        /\ transform[1].scale_y = R(1)
        /\ scale_scalar(transform[1], R(7)) = R(7)
        /\ \A n \in 1..Len(glyphs) :
              glyphs[n].bbox # None =>
                  /\ map_point(transform[1], glyphs[n].bbox[1].x, glyphs[n].bbox[1].y)
                        = Translated(glyphs[n].bbox[1].x, glyphs[n].bbox[1].y)
                  /\ map_size(transform[1], glyphs[n].bbox[1].w, glyphs[n].bbox[1].h)
                        = <<glyphs[n].bbox[1].w, glyphs[n].bbox[1].h>>

\* A document whose padded span is negative along x and zero along y, under
\* a negative padding, has been rendered to both files with scale 1.
C28_Witness ==
    /\ transform # None
    /\ pc = "done"
    /\ RLt(padding, R(0))
    /\ RLt(PaddedSpan(ContentXs), R(0))
    /\ PaddedSpan(ContentYs) = R(0)
    /\ transform[1].scale_x = R(1)
    /\ transform[1].scale_y = R(1)
    /\ glyphs[1].bbox # None
    /\ map_point(transform[1], glyphs[1].bbox[1].x, glyphs[1].bbox[1].y)
          = [x |-> RSub(glyphs[1].bbox[1].x, transform[1].min_x),
             y |-> RSub(glyphs[1].bbox[1].y, transform[1].min_y)]

----------------------------------------------------------------------------
(* Saved state.                                                            *)
\* A paint of a clone marker: the marker rectangle, clipped to one outline.
MarkerPaint(o) ==
    /\ Len(o.path) = 1
    /\ o.path[1][1] = "R"
    /\ Len(o.clip) = 1
    /\ o.src \in {CLONE_MARKER_FILL_COLOR, AUX_LINE_COLOR}

\* C29: save and restore are balanced over every render pass: between the
\* draws of two glyphs or arcs nothing is saved, no clip is installed and
\* the matrix is the identity; the only operations painted under a clip are
\* the fill and the stroke of a clone marker, under the one clip of its
\* outline; and the label that follows an ellipse is set in device space,
\* not in the space of the ellipse.
C29_SaveRestoreBalanced ==
    ctx # None =>
        /\ ctx[1].saved = <<>>
        /\ ctx[1].clip = <<>>
        /\ ctx[1].ctm = CairoContext_new.ctm
        /\ \A n \in 1..Len(ctx[1].ops) :
              ctx[1].ops[n].clip # <<>> => MarkerPaint(ctx[1].ops[n])
        /\ \A m \in GlyphEntries :
              LET g == glyphs[trace[m].i]
              IN  (g.class_name \in {<<"simple", "chemical">>, <<"unspecified", "entity">>}
                     /\ ~IsBlank(glyph_label(g))) =>
                      LabelOnceAs(trace[m], g, CenteredLabel(g))

\* A simple chemical with a label and a clone marker has been drawn: the
\* marker was painted under the clip of the ellipse, and the outline stroked
\* after it and the label filled after that are under no clip.
C29_Witness ==
    /\ ctx # None
    /\ ctx[1].saved = <<>>
    /\ \E m \in GlyphEntries :
          LET e == trace[m]
              g == glyphs[e.i]
          IN  /\ g.class_name = <<"simple", "chemical">>
              /\ \E a, b, c \in e.lo..e.hi :
                    /\ a < b /\ b < c
                    /\ MarkerPaint(ctx[1].ops[a])
                    /\ ctx[1].ops[a].clip = <<PathAt("path_ellipse", RectOf(g))>>
                    /\ ctx[1].ops[b] = [StrokeOp(PathAt("path_ellipse", RectOf(g)))
                                           EXCEPT !.lw = ctx[1].ops[b].lw]
                    /\ c \in TextFills(e, glyph_label(g))
                    /\ ctx[1].ops[c].clip = <<>>

----------------------------------------------------------------------------
(* Drawn glyphs.                                                           *)
\* Every glyph has an id of its own.
UniqueIds ==
    \A i, j \in 1..Len(glyphs) :
        glyphs[i].id # "" /\ (glyphs[i].id = glyphs[j].id => i = j)

\* The draws of the glyph at position j in this pass, by the recursion and
\* by the loop over the auxiliary glyphs.
DrawsOf(j) == { m \in 1..Len(trace) : trace[m].k \in {"glyph", "aux"} /\ trace[m].i = j }

\* The glyphs that hold the glyph at position j, at any depth.
RECURSIVE Ancestors(_)
Ancestors(j) ==
    IF Enclosing[j] = 0 THEN {} ELSE {Enclosing[j]} \cup Ancestors(Enclosing[j])

\* A glyph is drawn iff it has a bounding box and is a unit of information
\* or state variable with a parent, or is one the recursion reaches.
ToDraw(j) == glyphs[j].bbox # None /\ (IsAuxGlyph(glyphs[j]) \/ Reached(j))

DrawnOnceIfToDraw ==
    /\ \A j \in 1..Len(glyphs) : Cardinality(DrawsOf(j)) <= 1
    /\ \A j \in 1..Len(glyphs) : DrawsOf(j) # {} => ToDraw(j)
    /\ PassDone => \A j \in 1..Len(glyphs) : ToDraw(j) => DrawsOf(j) # {}

\* C30 as stated: with unique ids that are not empty no glyph is drawn more
\* than once in a pass, and a glyph is drawn iff it has a bounding box and
\* (a) is a unit of information or state variable with a parent, or (b) is a
\* root, or a glyph of another class all of whose ancestors have bounding
\* boxes and are reached by the recursion; so the descendants of a glyph
\* without bounding box, and the descendants of other classes of a unit of
\* information or state variable with a parent, are not drawn.
C30_DrawnOnce ==
    (ctx # None /\ UniqueIds) =>
        /\ DrawnOnceIfToDraw
        /\ \A j \in 1..Len(glyphs) :
              ( \E a \in Ancestors(j) :
                    \/ glyphs[a].bbox = None
                    \/ IsAuxGlyph(glyphs[a]) /\ ~IsAuxClass(glyphs[j].class_name) )
              => DrawsOf(j) = {}

\* C30: as stated but for the descendants of a glyph without bounding box:
\* of these the ones that are no unit of information and no state variable
\* are not drawn; a unit of information or state variable with a bounding
\* box is drawn by the loop over the auxiliary glyphs whatever holds it.
C30_DrawnOnceAuxAnywhere ==
    (ctx # None /\ UniqueIds) =>
        /\ DrawnOnceIfToDraw
        /\ \A j \in 1..Len(glyphs) :
              ( /\ ~IsAuxClass(glyphs[j].class_name)
                /\ \E a \in Ancestors(j) : glyphs[a].bbox = None \/ IsAuxGlyph(glyphs[a]) )
              => DrawsOf(j) = {}
        /\ PassDone =>
              \A j \in 1..Len(glyphs) :
                  (IsAuxGlyph(glyphs[j]) /\ glyphs[j].bbox # None) => DrawsOf(j) # {}

\* A pass over ten glyphs with ids of their own has ended: the root without
\* bounding box and its child of class complex are not drawn, its unit of
\* information is, the glyph inside that unit of information is not, and
\* the state variable at the top and the glyph it holds are both drawn.
C30_Witness ==
    /\ ctx # None
    /\ UniqueIds
    /\ PassDone
    /\ Len(glyphs) = 10
    /\ \E r, k, u, q, w, y \in 1..Len(glyphs) :
          /\ glyphs[r].id = "r" /\ glyphs[r].bbox = None /\ DrawsOf(r) = {}
          /\ glyphs[k].id = "k" /\ glyphs[k].bbox # None /\ DrawsOf(k) = {}
          /\ glyphs[u].id = "u" /\ Cardinality(DrawsOf(u)) = 1
          /\ glyphs[q].id = "q" /\ glyphs[q].bbox # None /\ DrawsOf(q) = {}
          /\ glyphs[w].id = "w" /\ Cardinality(DrawsOf(w)) = 1
          /\ glyphs[y].id = "y" /\ Cardinality(DrawsOf(y)) = 1

====
